---- MODULE Spec2Model ----
(***************************************************************************)
(* A model of the leverage-scoring pipeline of neo-hackathon: the race     *)
(* name parser, the Kalshi market matcher, the competitiveness and         *)
(* saturation estimators, the FEC retry loop and the server's scoring      *)
(* stages (src/find_scores.py and src/server/*.py).                        *)
(*                                                                         *)
(* Conventions.  A Python string is a sequence of word tokens and          *)
(* "a in b" on strings is "a is a contiguous run of b's tokens".  Market   *)
(* titles and tickers are held lower-cased (the code lower-cases them      *)
(* before every test; the upper-case ticker tests are the same tests on    *)
(* upper-cased operands).  Scores are fixed-point integers: a match score  *)
(* is in tenths, a competitiveness in hundredths, a saturation in          *)
(* thousandths.  Absent is a dictionary key that is missing, Null a JSON   *)
(* null (Python None), 0 the number zero.                                  *)
(***************************************************************************)
EXTENDS Integers, Sequences, FiniteSets, TLC

Absent == -1
Null == -2

\* "pat in s" for token sequences
Contains(s, pat) ==
    \E i \in 1..(Len(s) - Len(pat) + 1) : SubSeq(s, i, i + Len(pat) - 1) = pat

HasTok(s, tok) == \E i \in 1..Len(s) : s[i] = tok

Reverse(s) == [i \in 1..Len(s) |-> s[Len(s) + 1 - i]]

\* str(n) for the numbers the model uses (districts and years)
str(n) ==
    CASE n = 3 -> "3" [] n = 7 -> "7" [] n = 9 -> "9"
      [] n = 2024 -> "2024" [] n = 2026 -> "2026" [] n = 2028 -> "2028"
      [] n = 2032 -> "2032"
      [] OTHER -> "?"

\* f"{n:02d}"
fmt02d(n) ==
    CASE n = 3 -> "03" [] n = 7 -> "07" [] n = 9 -> "09" [] OTHER -> "??"

\* int() of a digit token, with or without an ordinal suffix; 0 when the
\* token is no number (the regex (\d+)(?:st|nd|rd|th)? does not match)
OrdinalValue(tok) ==
    CASE tok \in {"3", "3rd"} -> 3
      [] tok \in {"7", "7th"} -> 7
      [] tok \in {"9", "9th"} -> 9
      [] OTHER -> 0

\* int() of a plain digit token (\d+), 0 when it is none
DigitsValue(tok) ==
    CASE tok = "3" -> 3 [] tok = "7" -> 7 [] tok = "9" -> 9 [] OTHER -> 0

\* the value of a token matching \b(20\d{2})\b, 0 when it does not match
YearValue(tok) ==
    CASE tok = "2024" -> 2024 [] tok = "2026" -> 2026 [] tok = "2028" -> 2028
      [] tok = "2032" -> 2032 [] OTHER -> 0

STATE_NAME_TO_ABBREV ==
    << [name |-> <<"Alabama">>, abbrev |-> "AL"],
       [name |-> <<"Alaska">>, abbrev |-> "AK"],
       [name |-> <<"Arizona">>, abbrev |-> "AZ"],
       [name |-> <<"Arkansas">>, abbrev |-> "AR"],
       [name |-> <<"California">>, abbrev |-> "CA"],
       [name |-> <<"Colorado">>, abbrev |-> "CO"],
       [name |-> <<"Connecticut">>, abbrev |-> "CT"],
       [name |-> <<"Delaware">>, abbrev |-> "DE"],
       [name |-> <<"Florida">>, abbrev |-> "FL"],
       [name |-> <<"Georgia">>, abbrev |-> "GA"],
       [name |-> <<"Hawaii">>, abbrev |-> "HI"],
       [name |-> <<"Idaho">>, abbrev |-> "ID"],
       [name |-> <<"Illinois">>, abbrev |-> "IL"],
       [name |-> <<"Indiana">>, abbrev |-> "IN"],
       [name |-> <<"Iowa">>, abbrev |-> "IA"],
       [name |-> <<"Kansas">>, abbrev |-> "KS"],
       [name |-> <<"Kentucky">>, abbrev |-> "KY"],
       [name |-> <<"Louisiana">>, abbrev |-> "LA"],
       [name |-> <<"Maine">>, abbrev |-> "ME"],
       [name |-> <<"Maryland">>, abbrev |-> "MD"],
       [name |-> <<"Massachusetts">>, abbrev |-> "MA"],
       [name |-> <<"Michigan">>, abbrev |-> "MI"],
       [name |-> <<"Minnesota">>, abbrev |-> "MN"],
       [name |-> <<"Mississippi">>, abbrev |-> "MS"],
       [name |-> <<"Missouri">>, abbrev |-> "MO"],
       [name |-> <<"Montana">>, abbrev |-> "MT"],
       [name |-> <<"Nebraska">>, abbrev |-> "NE"],
       [name |-> <<"Nevada">>, abbrev |-> "NV"],
       [name |-> <<"New", "Hampshire">>, abbrev |-> "NH"],
       [name |-> <<"New", "Jersey">>, abbrev |-> "NJ"],
       [name |-> <<"New", "Mexico">>, abbrev |-> "NM"],
       [name |-> <<"New", "York">>, abbrev |-> "NY"],
       [name |-> <<"North", "Carolina">>, abbrev |-> "NC"],
       [name |-> <<"North", "Dakota">>, abbrev |-> "ND"],
       [name |-> <<"Ohio">>, abbrev |-> "OH"],
       [name |-> <<"Oklahoma">>, abbrev |-> "OK"],
       [name |-> <<"Oregon">>, abbrev |-> "OR"],
       [name |-> <<"Pennsylvania">>, abbrev |-> "PA"],
       [name |-> <<"Rhode", "Island">>, abbrev |-> "RI"],
       [name |-> <<"South", "Carolina">>, abbrev |-> "SC"],
       [name |-> <<"South", "Dakota">>, abbrev |-> "SD"],
       [name |-> <<"Tennessee">>, abbrev |-> "TN"],
       [name |-> <<"Texas">>, abbrev |-> "TX"],
       [name |-> <<"Utah">>, abbrev |-> "UT"],
       [name |-> <<"Vermont">>, abbrev |-> "VT"],
       [name |-> <<"Virginia">>, abbrev |-> "VA"],
       [name |-> <<"Washington">>, abbrev |-> "WA"],
       [name |-> <<"West", "Virginia">>, abbrev |-> "WV"],
       [name |-> <<"Wisconsin">>, abbrev |-> "WI"],
       [name |-> <<"Wyoming">>, abbrev |-> "WY"],
       [name |-> <<"District", "of", "Columbia">>, abbrev |-> "DC"] >>

\* the state_names table of validate_kalshi_market_match, with the lower()
\* of each abbreviation
state_names ==
    << [abbrev |-> "AL", lower |-> "al", full |-> <<"alabama">>],
       [abbrev |-> "AK", lower |-> "ak", full |-> <<"alaska">>],
       [abbrev |-> "AZ", lower |-> "az", full |-> <<"arizona">>],
       [abbrev |-> "AR", lower |-> "ar", full |-> <<"arkansas">>],
       [abbrev |-> "CA", lower |-> "ca", full |-> <<"california">>],
       [abbrev |-> "CO", lower |-> "co", full |-> <<"colorado">>],
       [abbrev |-> "CT", lower |-> "ct", full |-> <<"connecticut">>],
       [abbrev |-> "DE", lower |-> "de", full |-> <<"delaware">>],
       [abbrev |-> "FL", lower |-> "fl", full |-> <<"florida">>],
       [abbrev |-> "GA", lower |-> "ga", full |-> <<"georgia">>],
       [abbrev |-> "HI", lower |-> "hi", full |-> <<"hawaii">>],
       [abbrev |-> "ID", lower |-> "id", full |-> <<"idaho">>],
       [abbrev |-> "IL", lower |-> "il", full |-> <<"illinois">>],
       [abbrev |-> "IN", lower |-> "in", full |-> <<"indiana">>],
       [abbrev |-> "IA", lower |-> "ia", full |-> <<"iowa">>],
       [abbrev |-> "KS", lower |-> "ks", full |-> <<"kansas">>],
       [abbrev |-> "KY", lower |-> "ky", full |-> <<"kentucky">>],
       [abbrev |-> "LA", lower |-> "la", full |-> <<"louisiana">>],
       [abbrev |-> "ME", lower |-> "me", full |-> <<"maine">>],
       [abbrev |-> "MD", lower |-> "md", full |-> <<"maryland">>],
       [abbrev |-> "MA", lower |-> "ma", full |-> <<"massachusetts">>],
       [abbrev |-> "MI", lower |-> "mi", full |-> <<"michigan">>],
       [abbrev |-> "MN", lower |-> "mn", full |-> <<"minnesota">>],
       [abbrev |-> "MS", lower |-> "ms", full |-> <<"mississippi">>],
       [abbrev |-> "MO", lower |-> "mo", full |-> <<"missouri">>],
       [abbrev |-> "MT", lower |-> "mt", full |-> <<"montana">>],
       [abbrev |-> "NE", lower |-> "ne", full |-> <<"nebraska">>],
       [abbrev |-> "NV", lower |-> "nv", full |-> <<"nevada">>],
       [abbrev |-> "NH", lower |-> "nh", full |-> <<"new", "hampshire">>],
       [abbrev |-> "NJ", lower |-> "nj", full |-> <<"new", "jersey">>],
       [abbrev |-> "NM", lower |-> "nm", full |-> <<"new", "mexico">>],
       [abbrev |-> "NY", lower |-> "ny", full |-> <<"new", "york">>],
       [abbrev |-> "NC", lower |-> "nc", full |-> <<"north", "carolina">>],
       [abbrev |-> "ND", lower |-> "nd", full |-> <<"north", "dakota">>],
       [abbrev |-> "OH", lower |-> "oh", full |-> <<"ohio">>],
       [abbrev |-> "OK", lower |-> "ok", full |-> <<"oklahoma">>],
       [abbrev |-> "OR", lower |-> "or", full |-> <<"oregon">>],
       [abbrev |-> "PA", lower |-> "pa", full |-> <<"pennsylvania">>],
       [abbrev |-> "RI", lower |-> "ri", full |-> <<"rhode", "island">>],
       [abbrev |-> "SC", lower |-> "sc", full |-> <<"south", "carolina">>],
       [abbrev |-> "SD", lower |-> "sd", full |-> <<"south", "dakota">>],
       [abbrev |-> "TN", lower |-> "tn", full |-> <<"tennessee">>],
       [abbrev |-> "TX", lower |-> "tx", full |-> <<"texas">>],
       [abbrev |-> "UT", lower |-> "ut", full |-> <<"utah">>],
       [abbrev |-> "VT", lower |-> "vt", full |-> <<"vermont">>],
       [abbrev |-> "VA", lower |-> "va", full |-> <<"virginia">>],
       [abbrev |-> "WA", lower |-> "wa", full |-> <<"washington">>],
       [abbrev |-> "WV", lower |-> "wv", full |-> <<"west", "virginia">>],
       [abbrev |-> "WI", lower |-> "wi", full |-> <<"wisconsin">>],
       [abbrev |-> "WY", lower |-> "wy", full |-> <<"wyoming">>],
       [abbrev |-> "DC", lower |-> "dc", full |-> <<"district", "of", "columbia">>] >>

(***************************************************************************)
(* Race Identifier Parser                                                  *)
(***************************************************************************)

\* the first table entry, in table order, whose name occurs in the race
\* name (for ... if state_name in race_name: ... break); 0 when none does
FirstStateIndex(race_name) ==
    LET hits == {i \in 1..Len(STATE_NAME_TO_ABBREV) :
                    Contains(race_name, STATE_NAME_TO_ABBREV[i].name)}
    IN  IF hits = {} THEN 0
        ELSE CHOOSE i \in hits : \A j \in hits : i <= j

\* re.search(r'(\d+)(?:st|nd|rd|th)?\s+Congressional District'): the
\* number of the leftmost match, 0 when there is none
CongressionalDistrictMatch(race_name) ==
    LET hits == {i \in 1..(Len(race_name) - 2) :
                    /\ OrdinalValue(race_name[i]) # 0
                    /\ race_name[i + 1] = "Congressional"
                    /\ race_name[i + 2] = "District"}
    IN  IF hits = {} THEN 0
        ELSE OrdinalValue(race_name[CHOOSE i \in hits : \A j \in hits : i <= j])

\* re.search(r'District\s+(\d+)')
DistrictNumberMatch(race_name) ==
    LET hits == {i \in 1..(Len(race_name) - 1) :
                    /\ race_name[i] = "District"
                    /\ DigitsValue(race_name[i + 1]) # 0}
    IN  IF hits = {} THEN 0
        ELSE DigitsValue(race_name[1 + CHOOSE i \in hits : \A j \in hits : i <= j])

\* office is "S", "H" or "" (None); state is an abbreviation or "" (None);
\* district is a number or 0 (None)
parse_race_name(race_name) ==
    LET si == FirstStateIndex(race_name)
        state == IF si = 0 THEN "" ELSE STATE_NAME_TO_ABBREV[si].abbrev
        isSenate == \/ Contains(race_name, <<"U.S.", "Senate">>)
                    \/ (HasTok(race_name, "Senate") /\ HasTok(race_name, "U.S."))
        isHouse == \/ Contains(race_name, <<"U.S.", "House">>)
                   \/ (/\ Contains(race_name, <<"House", "of", "Representatives">>)
                       /\ HasTok(race_name, "U.S."))
        cd == CongressionalDistrictMatch(race_name)
    IN  IF isSenate THEN [office |-> "S", state |-> state, district |-> 0]
        ELSE IF isHouse
             THEN [office |-> "H", state |-> state,
                   district |-> IF cd # 0 THEN cd ELSE DistrictNumberMatch(race_name)]
        ELSE [office |-> "", state |-> state, district |-> 0]

(***************************************************************************)
(* Market Matcher                                                          *)
(***************************************************************************)

\* state_names.get(state, state) and state.lower()
StateNamesEntry(abbrev) ==
    state_names[CHOOSE i \in 1..Len(state_names) : state_names[i].abbrev = abbrev]

StateMatch(series, race_info) ==
    /\ race_info.state # ""
    /\ LET e == StateNamesEntry(race_info.state)
       IN  \/ HasTok(series.title, e.lower)
           \/ HasTok(series.ticker, e.lower)
           \/ Contains(series.title, e.full)

\* OfficeMatch without the tests of race_info's office (lines 163 and 168):
\* a market of either chamber matches a race of any office
OfficeMatchAnyOffice(series, race_info) ==
    \/ HasTok(series.title, "house") \/ HasTok(series.ticker, "house")
    \/ HasTok(series.ticker, "h-")
    \/ HasTok(series.title, "senate") \/ HasTok(series.ticker, "senate")
    \/ HasTok(series.ticker, "s-")

\* 'house' in the title or the ticker (the "h-" ticker prefix is the token "h-")
OfficeMatch(series, race_info) ==
    \/ /\ race_info.office = "H"
       /\ (HasTok(series.title, "house") \/ HasTok(series.ticker, "house")
           \/ HasTok(series.ticker, "h-"))
    \/ /\ race_info.office = "S"
       /\ (HasTok(series.title, "senate") \/ HasTok(series.ticker, "senate")
           \/ HasTok(series.ticker, "s-"))

DistrictExpected(race_info) == race_info.office = "H" /\ race_info.district # 0

DistrictMatch(series, race_info) ==
    /\ DistrictExpected(race_info)
    /\ \/ HasTok(series.title, str(race_info.district))
       \/ HasTok(series.ticker, str(race_info.district))
       \/ HasTok(series.ticker, fmt02d(race_info.district))

\* str(election_year) in the title or the ticker
YearExact(series, election_year) ==
    /\ election_year # 0
    /\ (HasTok(series.title, str(election_year))
        \/ HasTok(series.ticker, str(election_year)))

\* re.findall(r'\b(20\d{2})\b', title + ' ' + ticker)[0], 0 when no year
FirstMarketYear(series) ==
    LET both == series.title \o series.ticker
        hits == {i \in 1..Len(both) : YearValue(both[i]) # 0}
    IN  IF hits = {} THEN 0
        ELSE YearValue(both[CHOOSE i \in hits : \A j \in hits : i <= j])

Abs(x) == IF x < 0 THEN -x ELSE x

\* the near-year rule of find_scores.py: a market year within 2 of the
\* election year counts as a year match with partial credit
YearClose(series, election_year) ==
    /\ election_year # 0
    /\ ~YearExact(series, election_year)
    /\ FirstMarketYear(series) # 0
    /\ Abs(FirstMarketYear(series) - election_year) <= 2

\* is_valid of both versions: state and office, the district for a House
\* race with a district, and then the lenient rule
IsValid(sm, om, de, dm, ym, election_year) ==
    LET strict == sm /\ om /\ (de => dm)
    IN  \/ strict
        \/ (~strict /\ sm /\ om /\ (ym \/ election_year = 0))

\* src/find_scores.py: (is_valid, match_score, warnings)
validate_kalshi_market_match(series, race_name, election_year) ==
    LET race_info == parse_race_name(race_name)
        sm == StateMatch(series, race_info)
        om == OfficeMatch(series, race_info)
        de == DistrictExpected(race_info)
        dm == DistrictMatch(series, race_info)
        ye == YearExact(series, election_year)
        yc == YearClose(series, election_year)
        ym == ye \/ yc
        valid == IsValid(sm, om, de, dm, ym, election_year)
        strict == sm /\ om /\ (de => dm)
        w1 == IF race_info.state # "" /\ ~sm THEN <<"State mismatch">> ELSE <<>>
        w2 == IF race_info.office \in {"H", "S"} /\ ~om
              THEN <<"Office type mismatch">> ELSE <<>>
        w3 == IF de /\ ~dm THEN <<"District mismatch">> ELSE <<>>
        w4 == IF election_year = 0 \/ ye THEN <<>>
              ELSE IF yc THEN <<"Year mismatch (using anyway)">>
              ELSE IF FirstMarketYear(series) # 0 THEN <<"Year mismatch">>
              ELSE <<"Year not found in market">>
        w5 == IF valid /\ ~strict
              THEN <<"Using market despite some mismatches">> ELSE <<>>
    IN  [is_valid |-> valid,
         match_score |-> (IF sm THEN 3 ELSE 0) + (IF om THEN 3 ELSE 0)
                         + (IF dm THEN 2 ELSE 0)
                         + (IF ye THEN 2 ELSE IF yc THEN 1 ELSE 0),
         warnings |-> w1 \o w2 \o w3 \o w4 \o w5,
         state_match |-> sm, office_match |-> om,
         district_expected |-> de, district_match |-> dm]

\* src/server/get_importance_scores.py: no near-year credit, and only the
\* lenient rule leaves a warning
validate_kalshi_market_match_server(series, race_name, election_year) ==
    LET race_info == parse_race_name(race_name)
        sm == StateMatch(series, race_info)
        om == OfficeMatch(series, race_info)
        de == DistrictExpected(race_info)
        dm == DistrictMatch(series, race_info)
        ym == YearExact(series, election_year)
        valid == IsValid(sm, om, de, dm, ym, election_year)
        strict == sm /\ om /\ (de => dm)
    IN  [is_valid |-> valid,
         match_score |-> (IF sm THEN 3 ELSE 0) + (IF om THEN 3 ELSE 0)
                         + (IF dm THEN 2 ELSE 0) + (IF ym THEN 2 ELSE 0),
         warnings |-> IF valid /\ ~strict
                      THEN <<"Using market despite some mismatches">> ELSE <<>>,
         state_match |-> sm, office_match |-> om,
         district_expected |-> de, district_match |-> dm]

\* Python's list.sort(reverse=True) / sorted(..., reverse=True) on
\* decorated entries [key, item]: the list is reversed, sorted ascending
\* and stably, and reversed again, so equal keys keep their input order.
RECURSIVE InsertAscending(_, _)
InsertAscending(x, s) ==
    IF s = <<>> THEN <<x>>
    ELSE IF x.key < Head(s).key THEN <<x>> \o s
    ELSE <<Head(s)>> \o InsertAscending(x, Tail(s))

RECURSIVE SortAscending(_)
SortAscending(s) ==
    IF s = <<>> THEN <<>>
    ELSE InsertAscending(s[Len(s)], SortAscending(SubSeq(s, 1, Len(s) - 1)))

SortReverseUnstable(s) == Reverse(SortAscending(s))

sort_reverse(s) == Reverse(SortAscending(Reverse(s)))

NoValidation ==
    [is_valid |-> FALSE, match_score |-> 0, warnings |-> <<>>,
     state_match |-> FALSE, office_match |-> FALSE,
     district_expected |-> FALSE, district_match |-> FALSE]

NoSeries ==
    [title |-> <<>>, ticker |-> <<>>, markets |-> <<>>, total_series_volume |-> 0]

\* the return value None of get_kalshi_market
NoMarket == [found |-> FALSE, series |-> NoSeries, validation |-> NoValidation, index |-> 0]

\* the key (is_valid, match_score) of the sort: tuples compare
\* lexicographically and True > False; match_score is at most 10
SortKey(v) == (IF v.is_valid THEN 100 ELSE 0) + v.match_score

\* scored_series: the results that carry markets, in result order, each
\* with its validation; index is the result's place in all_series
\* the scoring loop without the test of lines 766-768: a result that carries
\* no markets is scored like any other
ScoredSeriesUnfiltered(all_series, validations) ==
    [i \in 1..Len(all_series) |->
        [key |-> SortKey(validations[i]),
         item |-> [found |-> TRUE, series |-> all_series[i],
                   validation |-> validations[i], index |-> i]]]

ScoredSeries(all_series, validations) ==
    LET keep == {i \in 1..Len(all_series) : all_series[i].markets # <<>>}
        F[i \in 0..Len(all_series)] ==
            IF i = 0 THEN <<>>
            ELSE IF i \in keep
                 THEN Append(F[i - 1],
                             [key |-> SortKey(validations[i]),
                              item |-> [found |-> TRUE, series |-> all_series[i],
                                        validation |-> validations[i], index |-> i]])
                 ELSE F[i - 1]
    IN  F[Len(all_series)]

BestMatch(all_series, validations) ==
    LET scored_series == ScoredSeries(all_series, validations)
    IN  IF scored_series = <<>> THEN NoMarket
        ELSE sort_reverse(scored_series)[1].item

\* src/find_scores.py; http_ok = FALSE is a request or parsing exception
get_kalshi_market(race_name, election_year, http_ok, all_series) ==
    IF ~http_ok \/ all_series = <<>> THEN NoMarket
    ELSE BestMatch(all_series,
                   [i \in 1..Len(all_series) |->
                       validate_kalshi_market_match(all_series[i], race_name, election_year)])

\* src/server/get_importance_scores.py
get_kalshi_market_server(race_name, election_year, http_ok, all_series) ==
    IF ~http_ok \/ all_series = <<>> THEN NoMarket
    ELSE BestMatch(all_series,
                   [i \in 1..Len(all_series) |->
                       validate_kalshi_market_match_server(all_series[i], race_name, election_year)])

(***************************************************************************)
(* Inputs: the races of the Election Data Provider and the series the      *)
(* Prediction Market Provider can return.                                  *)
(***************************************************************************)

Outcome(last_price, yes_bid, yes_ask) ==
    [last_price |-> last_price, yes_bid |-> yes_bid, yes_ask |-> yes_ask]

Series(title, ticker, markets, volume) ==
    [title |-> title, ticker |-> ticker, markets |-> markets,
     total_series_volume |-> volume]

Races ==
    { [name |-> <<"U.S.", "Senate", "-", "Ohio">>, level |-> "FEDERAL"],
      [name |-> <<"U.S.", "House", "of", "Representatives", "-", "North",
                  "Carolina", "9th", "Congressional", "District">>,
       level |-> "FEDERAL"],
      [name |-> <<"Ohio", "State", "Senate", "-", "District", "7">>,
       level |-> "STATE"],
      [name |-> <<"State", "Board", "of", "Education">>, level |-> "STATE"] }

\* series that differ in what the validation and the selection read: title,
\* ticker and the presence of markets
ValidationCatalogue ==
    { Series(<<"nc", "9", "house", "2026">>, <<"house", "nc", "09">>,
             <<Outcome(50, 48, 52), Outcome(50, 48, 52)>>, 500),
      Series(<<"north", "carolina", "house", "2026">>, <<"house", "nc", "03">>,
             <<Outcome(80, 78, 81)>>, 50),
      Series(<<"north", "carolina", "senate", "2026">>, <<"senate", "nc">>,
             <<Outcome(45, 44, 47), Outcome(55, 53, 56)>>, 200),
      Series(<<"ohio", "senate", "2026">>, <<"senate", "oh", "26">>,
             <<Outcome(30, 29, 33), Outcome(70, 67, 71)>>, 1000),
      Series(<<"ohio", "senate", "race", "2028">>, <<"senate", "oh", "28">>,
             <<Outcome(0, 0, 5), Outcome(Absent, Absent, Absent)>>, 5),
      Series(<<"ohio", "senate", "2026">>, <<"senate", "oh", "x">>, <<>>, 0) }

\* series that differ in what the scoring reads: a primary of four
\* candidates, and an outcome whose yes_ask is null
ScoringCatalogue ==
    { Series(<<"ohio", "senate", "primary">>, <<"senate", "oh", "p">>,
             <<Outcome(40, 38, 42), Outcome(30, 28, 33), Outcome(20, 18, 22),
               Outcome(10, 8, 12)>>, 20),
      Series(<<"ohio", "senate", "2026">>, <<"senate", "oh", "n">>,
             <<Outcome(40, 39, Null)>>, 300) }

MarketCatalogue == ValidationCatalogue \cup ScoringCatalogue

\* the election years of the races' election days; 0 is no election day
ElectionYears == {0, 2026}

MaxResults == 3

RECURSIVE SeqsUpTo(_, _)
SeqsUpTo(S, n) ==
    IF n = 0 THEN {<<>>}
    ELSE LET shorter == SeqsUpTo(S, n - 1)
         IN  shorter \cup {Append(s, x) : s \in {t \in shorter : Len(t) = n - 1}, x \in S}

SearchResults == SeqsUpTo(ValidationCatalogue, MaxResults)

Impls == {"find_scores", "server"}


(***************************************************************************)
(* The final ranking of process_races (sorted by leverage_score) and of    *)
(* run_search (sort by relevance_score, then the first result_limit        *)
(* races).  A race is [race_id, score]; race_id is its place in fetch      *)
(* order; a score of Absent is a race without the score key.               *)
(***************************************************************************)

MaxRaces == 3
MaxScore == 2
MaxLimit == 2

ScoreLists == SeqsUpTo(0..MaxScore \cup {Absent}, MaxRaces)

ScoredRaces(scores) == [i \in 1..Len(scores) |-> [race_id |-> i, score |-> scores[i]]]

\* x.get('relevance_score', 0.0)
RelevanceKey(race) == IF race.score = Absent THEN 0 ELSE race.score

Decorate(races) == [i \in 1..Len(races) |-> [key |-> RelevanceKey(races[i]), item |-> races[i]]]

Undecorate(entries) == [i \in 1..Len(entries) |-> entries[i].item]

\* ranked_list = sorted(recommendations, key=lambda x: x['leverage_score'], reverse=True)
RankRecommendations(recommendations) == Undecorate(sort_reverse(Decorate(recommendations)))

\* races_with_scores.sort(key=..., reverse=True); races_with_scores[:result_limit]
RankSearchResults(races_with_scores, result_limit) ==
    LET sorted == Undecorate(sort_reverse(Decorate(races_with_scores)))
    IN  SubSeq(sorted, 1, IF result_limit < Len(sorted) THEN result_limit ELSE Len(sorted))


(***************************************************************************)
(* Scores.  Competitiveness and saturation are held in thousandths         *)
(* (1000 is 1.0), prices in cents.                                         *)
(***************************************************************************)

\* Python truth value of the result of dict.get: None and 0 are false
Truthy(x) == x \notin {Absent, Null, 0}

\* dict.get(key): None for a missing key
Get(x) == IF x = Absent THEN Null ELSE x

\* dict.get(key, default)
GetDefault(x, default) == IF x = Absent THEN default ELSE x

\* a or b
Or(a, b) == IF Truthy(a) THEN a ELSE b

Min(a, b) == IF a < b THEN a ELSE b

Max(a, b) == IF a > b THEN a ELSE b

Clamp(x, lo, hi) == Max(lo, Min(hi, x))

\* sum(s)
RECURSIVE SumSeq(_)
SumSeq(s) == IF s = <<>> THEN 0 ELSE Head(s) + SumSeq(Tail(s))

\* 1000 * math.log(1 + n), rounded, for the volumes and spreads of MarketCatalogue
Log1p(n) ==
    CASE n = 1 -> 693 [] n = 2 -> 1099 [] n = 3 -> 1386 [] n = 4 -> 1609
      [] n = 5 -> 1792 [] n = 6 -> 1946 [] n = 20 -> 3045 [] n = 50 -> 3932
      [] n = 200 -> 5303 [] n = 500 -> 6217 [] n = 1000 -> 6909

\* the formula of line 835 without the clamp of line 834
calculate_competitiveness_general_unclamped(price) == 1000 - 20 * Abs(price - 50)

\* lines 832-835, in thousandths
calculate_competitiveness_general(price) ==
    1000 - 20 * Abs(Clamp(price, 1, 99) - 50)

\* the prices a primary's outcomes contribute: last_price or yes_bid or
\* yes_ask, kept unless it is None
PrimaryPrices(markets) ==
    LET price(m) == Or(Or(Get(m.last_price), Get(m.yes_bid)), Get(m.yes_ask))
    IN  SelectSeq([i \in 1..Len(markets) |-> price(markets[i])], LAMBDA p : p # Null)

\* 1000 * entropy / math.log(n) of the probabilities p / sum(prices)
EntropyScore(prices) ==
    CASE \A i \in 1..Len(prices) : prices[i] = prices[1] -> 1000
      [] prices = <<40, 30, 20, 10>> -> 923

\* 1000 * (1 - (p1 - p2) / 100) for the two greatest prices, clamped
GapScore(prices) ==
    LET p1 == CHOOSE p \in {prices[i] : i \in 1..Len(prices)} :
                  \A i \in 1..Len(prices) : prices[i] <= p
        i1 == CHOOSE i \in 1..Len(prices) : prices[i] = p1
        p2 == CHOOSE p \in {prices[i] : i \in 1..Len(prices) \ {i1}} :
                  \A i \in 1..Len(prices) \ {i1} : prices[i] <= p
    IN  Clamp(1000 - 10 * (p1 - p2), 0, 1000)

calculate_competitiveness_primary(markets) ==
    LET prices == PrimaryPrices(markets)
    IN  IF Len(markets) < 2 THEN 0
        ELSE IF Len(prices) = 1 THEN Clamp(1000 - 10 * prices[1], 100, 900)
        ELSE IF Len(prices) = 0 THEN 500
        ELSE LET competitiveness == (6 * EntropyScore(prices) + 4 * GapScore(prices)) \div 10
             IN  IF Len(markets) > 3
                 THEN Clamp(Min(1000, (competitiveness * 11) \div 10), 0, 1000)
                 ELSE Clamp(competitiveness, 0, 1000)

\* [score, data_quality, warnings] of the market-liquidity proxy
calculate_saturation_kalshi(volume, spread) ==
    LET s == Max(1, spread)
        v == Max(2, volume)
        saturation_score == Clamp((1000 * Log1p(s)) \div Log1p(v), 50, 1000)
    IN  [score |-> saturation_score,
         data_quality |-> IF v < 10 THEN "low" ELSE IF v < 100 THEN "medium" ELSE "high",
         warnings |-> IF v < 10 THEN <<"Low Kalshi market volume - saturation">>
                      ELSE IF v < 100 THEN <<"Moderate Kalshi market volume">>
                      ELSE <<>>,
         error |-> FALSE]

(***************************************************************************)
(* The scores of one race: process_races (src/find_scores.py) and          *)
(* calculate_race_leverage_score (src/server/get_importance_scores.py).    *)
(* leverage_score is held in units of 10^-9: thousandths of competitiveness*)
(* times thousandths of saturation times tenths of impact times hundredths *)
(* of boost.                                                               *)
(***************************************************************************)

\* date.today().year
current_year == 2026

\* the two-year campaign-finance cycle of an election year
FecCycle(election_year) ==
    LET cycle_year == IF election_year # 0 THEN election_year ELSE current_year
        even == IF cycle_year % 2 = 0 THEN cycle_year ELSE cycle_year - 1
        capped == IF even > current_year
                  THEN (IF current_year % 2 = 0 THEN current_year ELSE current_year - 1)
                  ELSE even
    IN  IF capped < 2018 THEN 2024 ELSE capped

\* yes_ask - yes_bid raises TypeError when the provider sent a null
SpreadRaises(market) ==
    GetDefault(market.yes_ask, 0) = Null \/ GetDefault(market.yes_bid, 0) = Null

Spread(market) ==
    Max(1, GetDefault(market.yes_ask, 0) - GetDefault(market.yes_bid, 0))

\* the outcomes with a last price, the greatest last price first
HasLeader(markets) == \E i \in 1..Len(markets) : Truthy(Get(markets[i].last_price))

Leader(markets) ==
    LET priced == {i \in 1..Len(markets) : Truthy(Get(markets[i].last_price))}
        first == CHOOSE i \in priced :
                    \A j \in priced :
                        \/ markets[j].last_price < markets[i].last_price
                        \/ (markets[j].last_price = markets[i].last_price /\ i <= j)
    IN  markets[first]

\* price = market.get('last_price') or market.get('yes_bid', 50)
BinaryPrice(market) == Or(Get(market.last_price), GetDefault(market.yes_bid, 50))

\* the scores dictionary of process_races at lines 1439-1448; a score of
\* Null is None, a quality of "" is a missing key
InitialScores ==
    [source |-> <<>>, comp_score |-> 0, sat_score |-> 0, leverage_score |-> 0,
     comp_data_quality |-> "", sat_data_quality |-> "",
     comp_warnings |-> <<>>, sat_warnings |-> <<>>, sat_method |-> "",
     has_validation |-> FALSE, kalshi_validation |-> NoValidation,
     fec_cycle |-> 0, time_priority |-> ""]

\* lines 1549-1556 and 1683-1690: the campaign-finance saturation
WithFecSaturation(scores, election_year, fec) ==
    [scores EXCEPT !.sat_score = fec.score,
                   !.source = Append(@, "FEC"),
                   !.sat_data_quality = fec.data_quality,
                   !.sat_warnings = IF fec.error THEN Append(fec.warnings, "FEC API error")
                                    ELSE fec.warnings,
                   !.fec_cycle = FecCycle(election_year)]

\* lines 1561-1572: the market-liquidity proxy
WithKalshiSaturation(scores, volume, spread) ==
    LET sat == calculate_saturation_kalshi(volume, spread)
    IN  [scores EXCEPT !.sat_score = sat.score,
                       !.sat_data_quality = sat.data_quality,
                       !.sat_warnings = <<"Kalshi market volume/spread used as proxy">>
                                        \o sat.warnings,
                       !.sat_method = "kalshi_proxy",
                       !.source = Append(@, "Kalshi (proxy)")]

\* lines 1459-1584 for a market series that was found: [raised, scores];
\* raised is the TypeError of the spread, caught at line 1576
Tier1Kalshi(scores, market_series, race, election_year, fec) ==
    LET markets == market_series.series.markets
        market_volume == market_series.series.total_series_volume
        validated == [scores EXCEPT !.source = <<"Kalshi">>,
                                    !.has_validation = TRUE,
                                    !.kalshi_validation = market_series.validation,
                                    !.comp_warnings = @ \o market_series.validation.warnings]
        binary == Len(markets) <= 2
        price == BinaryPrice(markets[1])
        comp == IF binary
                THEN (IF Truthy(price) THEN calculate_competitiveness_general(price)
                      ELSE validated.comp_score)
                ELSE calculate_competitiveness_primary(markets)
        spread_of == IF binary THEN markets[1] ELSE Leader(markets)
        has_spread == IF binary THEN Truthy(price) ELSE HasLeader(markets)
        raised == has_spread /\ SpreadRaises(spread_of)
        spread == IF has_spread THEN Spread(spread_of) ELSE 1
        scored == [validated EXCEPT !.comp_score = comp]
        graded == IF market_volume < 10
                  THEN [scored EXCEPT !.comp_data_quality = "low",
                                      !.comp_warnings = <<"Low Kalshi market volume">>]
                  ELSE IF market_volume < 100
                  THEN [scored EXCEPT !.comp_data_quality = "medium"]
                  ELSE [scored EXCEPT !.comp_data_quality = "high"]
    IN  IF raised THEN [raised |-> TRUE, scores |-> scored]
        ELSE [raised |-> FALSE,
              scores |-> IF race.level = "FEDERAL"
                         THEN WithFecSaturation(graded, election_year, fec)
                         ELSE WithKalshiSaturation(graded, market_volume, spread)]

\* lines 1594-1620: the historical-result strategy; it is used only when it
\* found elections, and an exception is the same as finding none
HistoricalSucceeds(historical) == ~historical.raised /\ historical.found > 0

\* Tier2Historical without the test of line 1600: the answer of the
\* historical strategy is taken even when it found no election
Tier2HistoricalUnconditional(scores, historical) ==
    IF ~historical.raised
    THEN [scores EXCEPT !.comp_score = historical.score,
                        !.comp_data_quality = historical.data_quality,
                        !.comp_warnings = historical.warnings,
                        !.source = <<"Civic Engine", "Historical">>]
    ELSE [scores EXCEPT !.source = <<"Civic Engine">>]

Tier2Historical(scores, historical) ==
    IF HistoricalSucceeds(historical)
    THEN [scores EXCEPT !.comp_score = historical.score,
                        !.comp_data_quality = historical.data_quality,
                        !.comp_warnings = historical.warnings,
                        !.source = <<"Civic Engine", "Historical">>]
    ELSE [scores EXCEPT !.source = <<"Civic Engine">>]

\* calculate_competitiveness_nanda on the dem-ratios (in thousandths) of the
\* records of the race's state: 0.5 when the name has no state or the state
\* has no record, else 1 - |0.5 - average| / 0.5 clamped to [0, 1]
calculate_competitiveness_nanda(race_name, state_ratios) ==
    IF parse_race_name(race_name).state = "" THEN 500
    ELSE IF state_ratios = <<>> THEN 500
    ELSE LET avg_dem_ratio == SumSeq(state_ratios) \div Len(state_ratios)
         IN  Clamp(1000 - 2 * Abs(500 - avg_dem_ratio), 0, 1000)

\* lines 1623-1651: the demographic proxy, then the default
NandaSucceeds(nanda) == nanda.data /\ ~nanda.raised

Tier2Nanda(scores, nanda) ==
    IF NandaSucceeds(nanda)
    THEN [scores EXCEPT !.comp_score = nanda.score,
                        !.source = Append(@, "NANDA"),
                        !.comp_data_quality = "medium",
                        !.comp_warnings = Append(@, "Using state-level NANDA data")]
    ELSE [scores EXCEPT !.comp_score = 500,
                        !.comp_data_quality = "low",
                        !.comp_warnings = <<"No competitiveness data available">>]

\* lines 1654-1697
Tier2Saturation(scores, race, election_year, fec) ==
    IF race.level = "FEDERAL"
    THEN WithFecSaturation(scores, election_year, fec)
    ELSE [scores EXCEPT !.sat_score = Null,
                        !.sat_data_quality = "none",
                        !.sat_warnings = <<"No saturation data available - Kalshi market not found">>]

\* the proximity boost in hundredths: lines 1740-1745, and lines 674-678 of
\* the server
Boost(days_until) ==
    IF days_until = Null \/ days_until < 0 THEN 100
    ELSE IF days_until <= 90 THEN 110
    ELSE IF days_until <= 180 THEN 105
    ELSE 100

\* lines 1713-1756
FinalLeverage(scores, race, days_until) ==
    LET impact_score == IF race.level = "FEDERAL" THEN 10 ELSE 8
        sat_score == IF scores.sat_score = Null THEN 500 ELSE scores.sat_score
        substituted ==
            IF scores.sat_score = Null
            THEN [scores EXCEPT !.sat_warnings =
                                    Append(@, "Using default saturation (no data available)")]
            ELSE scores
        multiplied ==
            [substituted EXCEPT
                !.leverage_score = scores.comp_score * sat_score * impact_score
                                     * Boost(days_until),
                !.comp_data_quality = IF @ = "" THEN "unknown" ELSE @,
                !.sat_data_quality = IF @ = "" THEN "unknown" ELSE @]
    IN  IF days_until = Null \/ days_until < 0 THEN multiplied
        ELSE IF days_until <= 90 THEN [multiplied EXCEPT !.time_priority = "immediate"]
        ELSE IF days_until <= 180 THEN [multiplied EXCEPT !.time_priority = "near-term"]
        ELSE IF days_until > 730
        THEN [multiplied EXCEPT
                 !.time_priority = "long-term",
                 !.comp_warnings = Append(@, "Election is days away - data may be incomplete"),
                 !.comp_data_quality = IF @ = "high" THEN "low" ELSE @]
        ELSE [multiplied EXCEPT !.time_priority = "medium-term"]

\* calculate_race_leverage_score of the server, lines 573-691; the result is
\* held in the fields of a scores record.  comp_score * sat_score is put in
\* the units of leverage_score by the factor 10 (1.0 in tenths).
calculate_race_leverage_score(race, election_year, market_series, fec, days_until) ==
    LET markets == market_series.series.markets
        binary == Len(markets) <= 2
        price == BinaryPrice(markets[1])
        kalshi_comp == IF binary
                       THEN (IF Truthy(price) THEN calculate_competitiveness_general(price)
                             ELSE 500)
                       ELSE calculate_competitiveness_primary(markets)
        is_valid_match == market_series.validation.is_valid
        match_score == market_series.validation.match_score
        proxy == race.level # "FEDERAL" /\ is_valid_match /\ match_score >= 6
        spread_of == IF binary THEN markets[1] ELSE Leader(markets)
        has_spread == binary \/ HasLeader(markets)
        raised == proxy /\ has_spread /\ SpreadRaises(spread_of)
        spread == IF has_spread THEN Spread(spread_of) ELSE 1
        volume == market_series.series.total_series_volume
        start == [InitialScores EXCEPT !.comp_score = 500, !.sat_score = 1000]
        with_comp ==
            IF market_series.found
            THEN [start EXCEPT !.comp_score = kalshi_comp, !.source = <<"Kalshi">>,
                               !.has_validation = TRUE,
                               !.kalshi_validation = market_series.validation]
            ELSE start
        with_proxy ==
            IF market_series.found /\ proxy /\ ~raised
            THEN [with_comp EXCEPT
                     !.sat_score = calculate_saturation_kalshi(volume, spread).score,
                     !.sat_method = "kalshi_proxy"]
            ELSE with_comp
        with_fec ==
            IF race.level = "FEDERAL" /\ with_proxy.sat_method = ""
            THEN [with_proxy EXCEPT !.sat_score = fec.score, !.sat_method = "fec",
                                    !.fec_cycle = FecCycle(election_year)]
            ELSE with_proxy
    IN  [with_fec EXCEPT
            !.leverage_score = with_fec.comp_score * with_fec.sat_score * 10
                                 * Boost(days_until)]

\* 1000 / math.log(1 + receipts), rounded, for receipts of whole millions of
\* dollars up to ten millions and for the dollar amounts of ReceiptsLadder
InverseLog1p(dollars) ==
    LET millions == dollars \div 1000000
    IN  CASE dollars = 1 -> 1443 [] dollars = 2 -> 910 [] dollars = 10 -> 417
          [] dollars = 100 -> 217 [] dollars = 1000 -> 145 [] dollars = 10000 -> 109
          [] dollars = 100000 -> 87
          [] dollars = 100000000 -> 54 [] dollars = 500000000 -> 50
          [] dollars = 1000000000 -> 48 [] dollars = 2000000000 -> 47
          [] dollars = 1000000 * millions /\ millions = 1 -> 72
          [] dollars = 1000000 * millions /\ millions = 2 -> 69
          [] dollars = 1000000 * millions /\ millions = 3 -> 67
          [] dollars = 1000000 * millions /\ millions = 4 -> 66
          [] dollars = 1000000 * millions /\ millions = 5 -> 65
          [] dollars = 1000000 * millions /\ millions = 6 -> 64
          [] dollars = 1000000 * millions /\ millions \in {7, 8} -> 63
          [] dollars = 1000000 * millions /\ millions \in {9, 10} -> 62

\* lines 1235-1238 without the clamp
SaturationScoreUnclamped(total_receipts) == InverseLog1p(total_receipts)

\* lines 1235-1238: 1 / math.log(1 + total_receipts), clamped to [0.05, 1.0]
SaturationScore(total_receipts) == Clamp(InverseLog1p(total_receipts), 50, 1000)

\* calculate_saturation_fec, the same in both versions: [score, data_quality,
\* warnings, error].  receipts is what get_fec_candidates_total_receipts did:
\* [raised, total], the total in dollars.
calculate_saturation_fec(race_name, cycle, receipts) ==
    LET race_info == parse_race_name(race_name)
    IN  IF race_info.office = "" \/ race_info.state = ""
        THEN [score |-> InverseLog1p(10000000), data_quality |-> "low",
              warnings |-> <<"Could not parse race name">>, error |-> FALSE]
        ELSE IF receipts.raised
        THEN [score |-> 500, data_quality |-> "none",
              warnings |-> <<"FEC API error">>, error |-> TRUE]
        ELSE IF receipts.total = 0
        THEN [score |-> 1000,
              data_quality |-> IF cycle > current_year \/ cycle < 2018 THEN "low" ELSE "high",
              warnings |-> (IF cycle > current_year THEN <<"Future cycle - data may not exist yet">>
                            ELSE IF cycle < 2018 THEN <<"Old cycle - data may be incomplete">>
                            ELSE <<>>) \o <<"No fundraising data found">>,
              error |-> FALSE]
        ELSE [score |-> SaturationScore(receipts.total),
              data_quality |-> "high", warnings |-> <<>>, error |-> FALSE]

\* the local variables of get_fec_candidates_total_receipts before its first
\* line, and the history of a call that has sent nothing
FecLocalsStart ==
    [pc |-> "start", cycles |-> <<>>, ci |-> 0, attempt |-> 0, candidates |-> <<>>,
     k |-> 0, tci |-> 0, totals_attempt |-> 0, max_receipts |-> 0,
     total_receipts |-> 0, candidate_ids_seen |-> {},
     result |-> [raised |-> FALSE, total |-> 0]]

FecHistoryStart ==
    [made |-> 0, waits |-> <<>>, answered |-> FALSE, exhausted |-> FALSE,
     badshape |-> FALSE, malformed |-> FALSE, queried |-> {}, listed |-> {},
     reported |-> {}]

(***************************************************************************)
(* State.  Each specification below runs one part of the program and       *)
(* leaves the variables of the other parts idle.                           *)
(***************************************************************************)

\* get_kalshi_market: the call's arguments, the provider's response and
\* the returned market
VARIABLES m_pc, m_impl, m_race, m_election_year, m_http_ok, m_all_series, m_result

\* the final ranking: the scored races in fetch order and the ranked list
VARIABLES r_pc, r_entry, r_races, r_limit, r_ranked

\* SpecRace: the inputs of one race, the position in process_races, the
\* market series in hand, the scores dictionary and the strategies called
VARIABLES p_pc, p_in, p_market_series, p_scores, p_attempted

\* SpecFec: the arguments of get_fec_candidates_total_receipts, its local
\* variables with its position, and what happened to its requests
VARIABLES f_in, f_locals, f_history

\* SpecBatch: the stage, the list it was given, what happens to each race,
\* the list being updated, the volume estimates of the parallel step, the
\* position in the stage, the loop index and the list returned
VARIABLES b_stage, b_input, b_fates, b_races, b_volume_estimates, b_pc, b_i, b_returned

\* SpecPool: the position of the main thread of get_monetary_estimate_value,
\* the races, the cache file, the futures of the pool, the volume_estimates
\* dictionary, the results of the batch being read with the position in
\* them, the threads inside a write of volume_estimates, the estimate step 2
\* uses for each race and the index of step 2
VARIABLES q_pc, q_races, q_cache, q_futures, q_volume_estimates, q_batch_results, q_k, q_writers, q_used, q_i

\* SpecRescore: the stage calls still to make, what happens to each race in
\* each stage, the list of races and the scores after every stage made
VARIABLES s_plan, s_fates, s_races, s_history

\* the specifications of one function: the position, the arguments and the
\* value returned
VARIABLES fn_pc, fn_in, fn_out

\* concurrent calls of save_volume_estimate_to_cache.  Per writer: its
\* position, the cache keys it has still to save, the attempt of the retry
\* loop, the inode its lock_file is open on (0: closed), whether it holds the
\* flock, and the estimates it loaded.  Shared: the inode the lock path names
\* (0: no such file), the keys in the cache file, the temp file, and the keys
\* whose save left the retry loop by its break
VARIABLES c_pc, c_todo, c_attempt, c_fd, c_flock, c_loaded, c_lock_path, c_file, c_tmp, c_saved

marketVars == <<m_pc, m_impl, m_race, m_election_year, m_http_ok, m_all_series, m_result>>

rankVars == <<r_pc, r_entry, r_races, r_limit, r_ranked>>

raceVars == <<p_pc, p_in, p_market_series, p_scores, p_attempted>>

fecVars == <<f_in, f_locals, f_history>>

batchVars == <<b_stage, b_input, b_fates, b_races, b_volume_estimates, b_pc, b_i, b_returned>>

poolVars == <<q_pc, q_races, q_cache, q_futures, q_volume_estimates, q_batch_results, q_k, q_writers, q_used, q_i>>

rescoreVars == <<s_plan, s_fates, s_races, s_history>>

fnVars == <<fn_pc, fn_in, fn_out>>

cacheVars == <<c_pc, c_todo, c_attempt, c_fd, c_flock, c_loaded, c_lock_path, c_file, c_tmp, c_saved>>

vars == <<marketVars, rankVars, raceVars, fecVars, batchVars, poolVars, rescoreVars, fnVars, cacheVars>>

MarketIdle ==
    /\ m_pc = "idle" /\ m_impl = "find_scores"
    /\ m_race = [name |-> <<>>, level |-> ""]
    /\ m_election_year = 0 /\ m_http_ok = FALSE
    /\ m_all_series = <<>> /\ m_result = NoMarket

RankIdle ==
    /\ r_pc = "idle" /\ r_entry = "" /\ r_races = <<>> /\ r_limit = 0 /\ r_ranked = <<>>

RaceIdle ==
    /\ p_pc = "idle" /\ p_in = [impl |-> ""] /\ p_market_series = NoMarket
    /\ p_scores = InitialScores /\ p_attempted = <<>>

FecIdle ==
    /\ f_in = [impl |-> ""] /\ f_locals = [FecLocalsStart EXCEPT !.pc = "idle"]
    /\ f_history = FecHistoryStart

BatchIdle ==
    /\ b_stage = "" /\ b_input = <<>> /\ b_fates = <<>> /\ b_races = <<>>
    /\ b_volume_estimates = {} /\ b_pc = "idle" /\ b_i = 0 /\ b_returned = <<>>

PoolIdle ==
    /\ q_pc = "idle" /\ q_races = <<>> /\ q_cache = [kind |-> "ok", estimates |-> <<>>]
    /\ q_futures = <<>> /\ q_volume_estimates = <<>> /\ q_batch_results = <<>>
    /\ q_k = 0 /\ q_writers = {} /\ q_used = <<>> /\ q_i = 0

RescoreIdle ==
    /\ s_plan = <<>> /\ s_fates = [importance |-> <<>>, monetary |-> <<>>]
    /\ s_races = <<>> /\ s_history = <<>>

FnIdle == fn_pc = "idle" /\ fn_in = <<>> /\ fn_out = <<>>

NoTemp == [exists |-> FALSE, estimates |-> {}]

CacheIdle ==
    /\ c_pc = <<>> /\ c_todo = <<>> /\ c_attempt = <<>> /\ c_fd = <<>> /\ c_flock = <<>>
    /\ c_loaded = <<>> /\ c_lock_path = 0 /\ c_file = {} /\ c_tmp = NoTemp /\ c_saved = {}

(***************************************************************************)
(* SpecMarket: one call of get_kalshi_market, in either version, on a      *)
(* provider response.                                                      *)
(***************************************************************************)

MarketFrame == UNCHANGED <<rankVars, raceVars, fecVars, batchVars, poolVars, rescoreVars, fnVars, cacheVars>>

InitMarket ==
    /\ m_pc = "call"
    /\ m_impl \in Impls
    /\ m_race \in Races
    /\ m_election_year \in ElectionYears
    /\ m_http_ok \in BOOLEAN
    /\ m_all_series \in SearchResults
    /\ m_result = NoMarket
    /\ RankIdle /\ RaceIdle /\ FecIdle /\ BatchIdle /\ PoolIdle /\ RescoreIdle /\ FnIdle /\ CacheIdle

GetKalshiMarket ==
    /\ m_pc = "call"
    /\ m_impl = "find_scores"
    /\ m_result' = get_kalshi_market(m_race.name, m_election_year, m_http_ok, m_all_series)
    /\ m_pc' = "done"
    /\ UNCHANGED <<m_impl, m_race, m_election_year, m_http_ok, m_all_series>>
    /\ MarketFrame

GetKalshiMarketServer ==
    /\ m_pc = "call"
    /\ m_impl = "server"
    /\ m_result' = get_kalshi_market_server(m_race.name, m_election_year, m_http_ok, m_all_series)
    /\ m_pc' = "done"
    /\ UNCHANGED <<m_impl, m_race, m_election_year, m_http_ok, m_all_series>>
    /\ MarketFrame

NextMarket == GetKalshiMarket \/ GetKalshiMarketServer

SpecMarket == InitMarket /\ [][NextMarket]_vars

\* the validation the called version computes for result i
ValidationOf(i) ==
    IF m_impl = "find_scores"
    THEN validate_kalshi_market_match(m_all_series[i], m_race.name, m_election_year)
    ELSE validate_kalshi_market_match_server(m_all_series[i], m_race.name, m_election_year)

\* (is_valid, match_score) of a is greater than that of b, lexicographically
KeyGreater(a, b) ==
    \/ (a.is_valid /\ ~b.is_valid)
    \/ (a.is_valid = b.is_valid /\ a.match_score > b.match_score)

Eligible == {i \in 1..Len(m_all_series) : m_all_series[i].markets # <<>>}

\* C3: validate_kalshi_market_match returns is_valid = true only if the
\* market matches the race's state and office and, for a House race with a
\* parsed district, also its district, whatever the election year argument.
\* (Violated: with no election year, or with a matching year, the lenient
\* rule accepts a market of another district.)
C3_ValidRequiresStateOfficeDistrict ==
    (m_pc = "done" /\ m_result.found /\ m_result.validation.is_valid)
        => /\ m_result.validation.state_match
           /\ m_result.validation.office_match
           /\ (m_result.validation.district_expected
                 => m_result.validation.district_match)

\* C4: get_kalshi_market considers only the results that carry markets and
\* returns the one with the greatest (is_valid, match_score), the earliest
\* in result order among equal keys; with no such result (or a failed
\* request) it returns no market.
C4_BestMatchSelection ==
    m_pc = "done" =>
        IF ~m_http_ok \/ Eligible = {}
        THEN ~m_result.found
        ELSE /\ m_result.found
             /\ m_result.index \in Eligible
             /\ m_result.series = m_all_series[m_result.index]
             /\ m_result.validation = ValidationOf(m_result.index)
             /\ \A j \in Eligible :
                   /\ ~KeyGreater(ValidationOf(j), ValidationOf(m_result.index))
                   /\ (j < m_result.index
                         => KeyGreater(ValidationOf(m_result.index), ValidationOf(j)))

\* a call that skipped an earlier result without markets whose key would
\* have won, and broke a tie with a later result of equal key
C4_Witness ==
    /\ m_pc = "done" /\ m_result.found
    /\ \E i \in 1..Len(m_all_series) :
          /\ i \notin Eligible /\ i < m_result.index
          /\ ~KeyGreater(ValidationOf(m_result.index), ValidationOf(i))
    /\ \E j \in Eligible :
          /\ j > m_result.index
          /\ ~KeyGreater(ValidationOf(m_result.index), ValidationOf(j))

(***************************************************************************)
(* SpecRank: the final ranking of process_races and of run_search on a     *)
(* list of scored races.                                                   *)
(***************************************************************************)

RankFrame == UNCHANGED <<marketVars, raceVars, fecVars, batchVars, poolVars, rescoreVars, fnVars, cacheVars>>

InitRank ==
    /\ r_pc = "rank"
    /\ r_entry \in {"process_races", "run_search"}
    /\ r_races \in {ScoredRaces(s) : s \in ScoreLists}
    /\ r_limit \in 1..MaxLimit
    /\ (r_entry = "process_races" => r_limit = 1 /\ \A i \in 1..Len(r_races) : r_races[i].score # Absent)
    /\ r_ranked = <<>>
    /\ MarketIdle /\ RaceIdle /\ FecIdle /\ BatchIdle /\ PoolIdle /\ RescoreIdle /\ FnIdle /\ CacheIdle

ProcessRacesRank ==
    /\ r_pc = "rank" /\ r_entry = "process_races"
    /\ r_ranked' = RankRecommendations(r_races)
    /\ r_pc' = "done"
    /\ UNCHANGED <<r_entry, r_races, r_limit>>
    /\ RankFrame

RunSearchRank ==
    /\ r_pc = "rank" /\ r_entry = "run_search"
    /\ r_ranked' = RankSearchResults(r_races, r_limit)
    /\ r_pc' = "done"
    /\ UNCHANGED <<r_entry, r_races, r_limit>>
    /\ RankFrame

NextRank == ProcessRacesRank \/ RunSearchRank

SpecRank == InitRank /\ [][NextRank]_vars

\* race a is ranked before race b: greater score, or equal score and
\* fetched earlier
RankedBefore(a, b) ==
    \/ RelevanceKey(a) > RelevanceKey(b)
    \/ (RelevanceKey(a) = RelevanceKey(b) /\ a.race_id < b.race_id)

InRanked(race) == \E i \in 1..Len(r_ranked) : r_ranked[i] = race

\* C5: the final list is ordered by score descending and races with equal
\* scores keep their fetch order, in process_races and in run_search (whose
\* list is the first result_limit races of that order).
C5_RankedDescendingStable ==
    r_pc = "done" =>
        /\ \A i, j \in 1..Len(r_ranked) : i < j => RankedBefore(r_ranked[i], r_ranked[j])
        /\ \A i \in 1..Len(r_ranked) : \E k \in 1..Len(r_races) : r_races[k] = r_ranked[i]
        /\ \A k \in 1..Len(r_races) :
              \/ InRanked(r_races[k])
              \/ /\ r_entry = "run_search" /\ Len(r_ranked) = r_limit
                 /\ \A i \in 1..Len(r_ranked) : RankedBefore(r_ranked[i], r_races[k])

\* a ranking that moved a later race forward and kept two equal scores in
\* fetch order
C5_Witness ==
    /\ r_pc = "done"
    /\ \E i, j \in 1..Len(r_ranked) :
          /\ i < j /\ RelevanceKey(r_ranked[i]) = RelevanceKey(r_ranked[j])
    /\ \E i, j \in 1..Len(r_ranked) :
          /\ i < j /\ r_ranked[i].race_id > r_ranked[j].race_id

(***************************************************************************)
(* SpecRace: the scores of one race, by process_races (tier by tier) and   *)
(* by calculate_race_leverage_score.                                       *)
(***************************************************************************)

RaceFrame == UNCHANGED <<marketVars, rankVars, fecVars, batchVars, poolVars, rescoreVars, fnVars, cacheVars>>

\* a strategy that is not called, or has nothing to answer
NoHistorical ==
    [raised |-> TRUE, found |-> 0, score |-> 500, data_quality |-> "low", warnings |-> <<>>]

NoNanda == [data |-> FALSE, raised |-> FALSE, state_ratios |-> <<>>, score |-> 500]

NoReceipts == [raised |-> FALSE, total |-> 0]

\* transition_ratio > 0.5 with the number of elections as the denominator
SwingsOverElections(transitions, num_parties) == 2 * transitions > num_parties

\* lines 517-519: transition_ratio = transitions / (len(parties) - 1), 0 for
\* one election, and the test transition_ratio > 0.5
Swings(transitions, num_parties) ==
    num_parties > 1 /\ 2 * transitions > num_parties - 1

\* sum(1 for i in range(1, len(parties)) if parties[i] != parties[i-1])
Transitions(parties) == Cardinality({i \in 2..Len(parties) : parties[i] # parties[i - 1]})

\* calculate_competitiveness_from_historical: the score in thousandths and
\* the metadata process_races reads
calculate_competitiveness_from_historical(historical_results) ==
    LET parties == SelectSeq(historical_results, LAMBDA p : p # "")
        unique_parties == {parties[i] : i \in 1..Len(parties)}
        num_elections == Len(parties)
        competitiveness ==
            IF Cardinality(unique_parties) = 1 THEN 300
            ELSE IF Cardinality(unique_parties) = 2
            THEN (IF Swings(Transitions(parties), Len(parties)) THEN 800 ELSE 500)
            ELSE 900
    IN  IF historical_results = <<>>
        THEN [raised |-> FALSE, found |-> 0, score |-> 500, data_quality |-> "none",
              warnings |-> <<"No historical election results available">>]
        ELSE IF parties = <<>>
        THEN [raised |-> FALSE, found |-> Len(historical_results), score |-> 500,
              data_quality |-> "low",
              warnings |-> <<"No party information in historical results">>]
        ELSE [raised |-> FALSE, found |-> Len(historical_results),
              score |-> competitiveness,
              data_quality |-> IF num_elections >= 3 THEN "high"
                               ELSE IF num_elections >= 2 THEN "medium" ELSE "low",
              warnings |-> IF num_elections >= 2 THEN <<>>
                           ELSE <<"Limited historical data - only one election cycle">>]

\* get_historical_winners_from_position, get_historical_winners_civicengine.py
\* lines 16-56: line 48 calls the parse_race_name of find_scores.py with the
\* keyword election_name, which that function does not take, so the call
\* raises before the provider is asked, whatever winners it holds
get_historical_winners_from_position(race_name, winners) ==
    [raised |-> TRUE, winners |-> <<>>]

\* get_historical_winners_civicengine, lines 490-528: the winners of the
\* position; an exception passes through
get_historical_winners_civicengine(race_name, winners) ==
    get_historical_winners_from_position(race_name, winners)

\* get_historical_election_results, lines 288-337: the winner_party of each
\* result; no result when the name has no office or state and when the
\* lookup raised
get_historical_election_results(race_name, winners) ==
    LET race_info == parse_race_name(race_name)
        answer == get_historical_winners_civicengine(race_name, winners)
    IN  IF race_info.office = "" \/ race_info.state = "" THEN <<>>
        ELSE IF answer.raised THEN <<>>
        ELSE answer.winners

\* the parties of the past winners the provider holds for the race's seat,
\* latest first: none, one election, three elections
ProviderWinners == {<<>>, <<"DEM">>, <<"DEM", "REP", "DEM">>}

\* the dem-ratios of the records nanda_data holds for the race's state:
\* none, one county, two counties that average 0.25
StateRatios == {<<>>, <<320>>, <<200, 300>>}

\* nanda_data (loaded or empty) and what calculate_competitiveness_nanda answers
NandaOutcomes(race) ==
    { NoNanda,
      [data |-> TRUE, raised |-> TRUE, state_ratios |-> <<>>, score |-> 500] }
        \cup { [data |-> TRUE, raised |-> FALSE, state_ratios |-> state_ratios,
                score |-> calculate_competitiveness_nanda(race.name, state_ratios)]
               : state_ratios \in StateRatios }

\* what get_fec_candidates_total_receipts answers
ReceiptsOutcomes ==
    { [raised |-> TRUE, total |-> 0], NoReceipts, [raised |-> FALSE, total |-> 1] }

\* race['days_until']: None, past, and both sides of each threshold
DaysUntil == {Null, -1, 0, 90, 91, 180, 181, 730, 731}

\* the search of get_kalshi_market for the race
RaceSearchResults == {<<>>} \cup {<<s>> : s \in MarketCatalogue}

\* the inputs the program can meet: without an election day there is no
\* days_until; receipts are asked for FEDERAL races only; the server calls
\* neither the historical nor the demographic strategy
InitRace ==
    /\ \E impl \in Impls, race \in Races, election_year \in ElectionYears :
       \E all_series \in RaceSearchResults :
       \E days_until \in (IF election_year = 0 THEN {Null} ELSE DaysUntil) :
       \E receipts \in (IF race.level = "FEDERAL" THEN ReceiptsOutcomes ELSE {NoReceipts}) :
       \E winners \in (IF impl = "server" THEN {<<>>} ELSE ProviderWinners) :
       \E nanda \in (IF impl = "server" THEN {NoNanda} ELSE NandaOutcomes(race)) :
          p_in = [impl |-> impl, race |-> race, election_year |-> election_year,
                  all_series |-> all_series, winners |-> winners,
                  historical |->
                      IF impl = "server" THEN NoHistorical
                      ELSE calculate_competitiveness_from_historical(
                               get_historical_election_results(race.name, winners)),
                  nanda |-> nanda, receipts |-> receipts, days_until |-> days_until]
    /\ p_pc = "start"
    /\ p_market_series = NoMarket
    /\ p_scores = InitialScores
    /\ p_attempted = <<>>
    /\ MarketIdle /\ RankIdle /\ FecIdle /\ BatchIdle /\ PoolIdle /\ RescoreIdle /\ FnIdle /\ CacheIdle

\* the receipts of the race's input are in millions of dollars
FecOf(inp) ==
    calculate_saturation_fec(inp.race.name, FecCycle(inp.election_year),
                             [inp.receipts EXCEPT !.total = 1000000 * @])

\* process_races, line 1457: the market search of the race
ProcessRaceSearch ==
    /\ p_pc = "start" /\ p_in.impl = "find_scores"
    /\ p_market_series' = get_kalshi_market(p_in.race.name, p_in.election_year,
                                            TRUE, p_in.all_series)
    /\ p_pc' = "kalshi"
    /\ p_attempted' = Append(p_attempted, "market")
    /\ UNCHANGED <<p_in, p_scores>>
    /\ RaceFrame

\* lines 1459-1584: the scores of a market series that was found
ProcessRaceKalshi ==
    /\ p_pc = "kalshi"
    /\ IF ~p_market_series.found
       THEN /\ p_pc' = "historical"
            /\ UNCHANGED <<p_market_series, p_scores>>
       ELSE LET tier1 == Tier1Kalshi(p_scores, p_market_series, p_in.race,
                                     p_in.election_year, FecOf(p_in))
            IN  /\ p_scores' = tier1.scores
                /\ p_market_series' = IF tier1.raised THEN NoMarket ELSE p_market_series
                /\ p_pc' = IF tier1.raised THEN "historical" ELSE "final"
    /\ UNCHANGED <<p_in, p_attempted>>
    /\ RaceFrame

\* lines 1587-1620
ProcessRaceHistorical ==
    /\ p_pc = "historical"
    /\ p_scores' = Tier2Historical(p_scores, p_in.historical)
    /\ p_pc' = IF HistoricalSucceeds(p_in.historical) THEN "saturation" ELSE "nanda"
    /\ p_attempted' = Append(p_attempted, "historical")
    /\ UNCHANGED <<p_in, p_market_series>>
    /\ RaceFrame

\* lines 1623-1651
ProcessRaceNanda ==
    /\ p_pc = "nanda"
    /\ p_scores' = Tier2Nanda(p_scores, p_in.nanda)
    /\ p_attempted' = IF p_in.nanda.data THEN p_attempted \o <<"nanda">>
                      ELSE p_attempted
    /\ p_pc' = "saturation"
    /\ UNCHANGED <<p_in, p_market_series>>
    /\ RaceFrame

\* lines 1653-1699
ProcessRaceSaturation ==
    /\ p_pc = "saturation"
    /\ p_scores' = Tier2Saturation(p_scores, p_in.race, p_in.election_year, FecOf(p_in))
    /\ p_pc' = "final"
    /\ UNCHANGED <<p_in, p_market_series, p_attempted>>
    /\ RaceFrame

\* lines 1711-1758
ProcessRaceLeverage ==
    /\ p_pc = "final"
    /\ p_scores' = FinalLeverage(p_scores, p_in.race, p_in.days_until)
    /\ p_pc' = "done"
    /\ UNCHANGED <<p_in, p_market_series, p_attempted>>
    /\ RaceFrame

\* calculate_race_leverage_score of the server
CalculateRaceLeverageScore ==
    /\ p_pc = "start" /\ p_in.impl = "server"
    /\ LET market_series == get_kalshi_market_server(p_in.race.name, p_in.election_year,
                                                     TRUE, p_in.all_series)
       IN  /\ p_market_series' = market_series
           /\ p_scores' = calculate_race_leverage_score(p_in.race, p_in.election_year,
                              market_series, FecOf(p_in), p_in.days_until)
    /\ p_attempted' = <<"market">>
    /\ p_pc' = "done"
    /\ UNCHANGED p_in
    /\ RaceFrame

NextRace ==
    \/ ProcessRaceSearch
    \/ ProcessRaceKalshi
    \/ ProcessRaceHistorical
    \/ ProcessRaceNanda
    \/ ProcessRaceSaturation
    \/ ProcessRaceLeverage
    \/ CalculateRaceLeverageScore

SpecRace == InitRace /\ [][NextRace]_vars

\* the strategy the source tag of the scores names (lines 1460, 1588, 1604, 1633)
Strategy(scores) ==
    IF scores.source # <<>> /\ scores.source[1] = "Kalshi" THEN "market"
    ELSE IF \E i \in 1..Len(scores.source) : scores.source[i] = "Historical" THEN "historical"
    ELSE IF \E i \in 1..Len(scores.source) : scores.source[i] = "NANDA" THEN "nanda"
    ELSE "default"

\* the market tier succeeded: a series was found and scoring it raised nothing
\* (line 1587)
MarketSucceeded == p_market_series.found

\* C1: process_races calls the competitiveness strategies in the order
\* market, historical, NANDA; the competitiveness it reports is that of the
\* first strategy that succeeded, no later strategy replaces it, and the
\* default 0.5 is reported only when all three abstained.
C1_StrategyOrderFirstSuccessWins ==
    p_in.impl = "find_scores" =>
        /\ \E n \in 0..3 : p_attempted = SubSeq(<<"market", "historical", "nanda">>, 1, n)
        /\ p_pc \in {"final", "done"} =>
              LET strategy == Strategy(p_scores)
                  markets == p_market_series.series.markets
                  historical == HistoricalSucceeds(p_in.historical)
                  nanda == NandaSucceeds(p_in.nanda)
              IN  /\ MarketSucceeded =>
                        /\ strategy = "market" /\ p_attempted = <<"market">>
                        /\ Len(markets) > 2 =>
                              p_scores.comp_score = calculate_competitiveness_primary(markets)
                        /\ (Len(markets) <= 2 /\ Truthy(BinaryPrice(markets[1]))) =>
                              p_scores.comp_score =
                                  calculate_competitiveness_general(BinaryPrice(markets[1]))
                  /\ (~MarketSucceeded /\ historical) =>
                        /\ strategy = "historical"
                        /\ p_attempted = <<"market", "historical">>
                        /\ p_scores.comp_score = p_in.historical.score
                  /\ (~MarketSucceeded /\ ~historical /\ nanda) =>
                        /\ strategy = "nanda"
                        /\ p_attempted = <<"market", "historical", "nanda">>
                        /\ p_scores.comp_score = p_in.nanda.score
                  /\ (~MarketSucceeded /\ ~historical /\ ~nanda) =>
                        /\ strategy = "default"
                        /\ p_scores.comp_score = 500
                        /\ p_scores.comp_data_quality = "low"
                        /\ Len(p_attempted) >= 2
                  /\ strategy = "default" => (~MarketSucceeded /\ ~historical /\ ~nanda)

\* a race whose market series was found but could not be scored, whose
\* historical strategy found no election and whose score is NANDA's
C1_Witness ==
    /\ p_in.impl = "find_scores" /\ p_pc = "done"
    /\ p_scores.has_validation /\ ~MarketSucceeded
    /\ p_attempted = <<"market", "historical", "nanda">>
    /\ Strategy(p_scores) = "nanda"
    /\ p_scores.comp_score = 640

\* C2: in process_races and calculate_race_leverage_score a market series is
\* the source of competitiveness or of saturation only when its validation
\* said is_valid = true.  (Violated: both use the best-scoring series for
\* competitiveness whatever its validation, and process_races also for the
\* liquidity proxy.)
C2_MarketUsedOnlyIfValid ==
    p_pc = "done" =>
        ((Strategy(p_scores) = "market" \/ p_scores.sat_method = "kalshi_proxy")
            => p_scores.kalshi_validation.is_valid)

\* C6: leverage = competitiveness x saturation x impact weight x boost, the
\* impact weight 1.0 for FEDERAL and 0.8 otherwise, the boost 1.10 for 0 to
\* 90 days, 1.05 for 91 to 180 days and 1 otherwise.  (Violated: the server's
\* calculate_race_leverage_score has no impact weight.)
C6_LeverageIsProductWithImpactAndBoost ==
    p_pc = "done" =>
        LET saturation == IF p_scores.sat_score = Null THEN 500 ELSE p_scores.sat_score
            impact_weight == IF p_in.race.level = "FEDERAL" THEN 10 ELSE 8
            days == p_in.days_until
            boost == IF days # Null /\ days >= 0 /\ days <= 90 THEN 110
                     ELSE IF days # Null /\ days >= 91 /\ days <= 180 THEN 105
                     ELSE 100
        IN  p_scores.leverage_score = p_scores.comp_score * saturation * impact_weight * boost

\* C7: a non-FEDERAL race without a market has its saturation recorded as
\* unavailable (quality none), the leverage multiplies by 0.5 in its place
\* and a warning is recorded; with the default competitiveness 0.5 and no
\* boost the leverage is 0.5 x 0.5 x 0.8 = 0.2.  (Violated: the server
\* multiplies by 1.0, records nothing and reports 0.5.)
C7_MissingSaturationNeutralHalf ==
    (p_pc = "done" /\ p_in.race.level # "FEDERAL" /\ ~MarketSucceeded) =>
        /\ p_scores.sat_score = Null
        /\ p_scores.sat_data_quality = "none"
        /\ \E i \in 1..Len(p_scores.sat_warnings) :
              p_scores.sat_warnings[i] = "Using default saturation (no data available)"
        /\ p_scores.leverage_score = p_scores.comp_score * 500 * 8 * Boost(p_in.days_until)
        /\ (p_scores.comp_score = 500 /\ Boost(p_in.days_until) = 100)
              => p_scores.leverage_score = 200000000

\* C14: without a market, without a historical election and without a
\* record of the race's state in the demographic data, process_races
\* reports competitiveness 0.5 with quality low and the warning that no
\* data was available, and NANDA is not named as the source.
C14_NoRecordsGivesDefault ==
    (/\ p_pc = "done" /\ p_in.impl = "find_scores"
     /\ ~p_scores.has_validation
     /\ ~HistoricalSucceeds(p_in.historical)
     /\ ~p_in.nanda.raised /\ p_in.nanda.state_ratios = <<>>) =>
        /\ p_scores.comp_score = 500
        /\ p_scores.comp_data_quality = "low"
        /\ \E i \in 1..Len(p_scores.comp_warnings) :
              p_scores.comp_warnings[i] = "No competitiveness data available"
        /\ Strategy(p_scores) = "default"

\* C16: for a race whose election is more than 730 days away process_races
\* applies no proximity boost, leaves the competitiveness data quality low,
\* whatever it was before, and records a warning about the distant date.
C16_DistantElectionIsLowQuality ==
    (/\ p_pc = "done" /\ p_in.impl = "find_scores"
     /\ p_in.days_until # Null /\ p_in.days_until > 730) =>
        /\ Boost(p_in.days_until) = 100
        /\ p_scores.time_priority = "long-term"
        /\ p_scores.comp_data_quality = "low"
        /\ \E i \in 1..Len(p_scores.comp_warnings) :
              p_scores.comp_warnings[i] = "Election is days away - data may be incomplete"

\* C17: every degraded path of process_races leaves its warning in the final
\* record: the warnings of the market validation stay in comp_warnings, the
\* default competitiveness and the substituted saturation carry theirs.
C17_WarningsKeptToTheEnd ==
    (p_pc = "done" /\ p_in.impl = "find_scores") =>
        /\ p_scores.has_validation =>
              \A i \in 1..Len(p_scores.kalshi_validation.warnings) :
                 \E j \in 1..Len(p_scores.comp_warnings) :
                    p_scores.comp_warnings[j] = p_scores.kalshi_validation.warnings[i]
        /\ Strategy(p_scores) = "default" =>
              \E j \in 1..Len(p_scores.comp_warnings) :
                 p_scores.comp_warnings[j] = "No competitiveness data available"
        /\ (Strategy(p_scores) # "market" /\ p_in.race.level # "FEDERAL") =>
              \E j \in 1..Len(p_scores.sat_warnings) :
                 p_scores.sat_warnings[j] = "Using default saturation (no data available)"

\* C24: when no market was found for a race with a parseable office and
\* state and the provider holds a past winner of the seat, process_races
\* takes the competitiveness of the historical strategy; it goes on to NANDA
\* only when no historical election is found.
C24_HistoricalUsedWhenWinnersExist ==
    (/\ p_pc = "done" /\ p_in.impl = "find_scores"
     /\ ~MarketSucceeded /\ ~p_scores.has_validation
     /\ parse_race_name(p_in.race.name).office # ""
     /\ parse_race_name(p_in.race.name).state # "") =>
        /\ p_in.winners # <<>> =>
              /\ Strategy(p_scores) = "historical"
              /\ p_attempted = <<"market", "historical">>
        /\ Strategy(p_scores) \in {"nanda", "default"} => p_in.winners = <<>>

\* C25: for a selected market with at most two outcomes whose first outcome
\* has no usable price, the competitiveness of the race is the flat 0.5 and
\* no error is raised, in process_races and in calculate_race_leverage_score.
C25_NoPriceGivesFlatHalf ==
    LET markets == p_market_series.series.markets
    IN  (/\ p_pc = "done" /\ p_market_series.found
         /\ markets # <<>> /\ Len(markets) <= 2
         /\ ~Truthy(BinaryPrice(markets[1]))) =>
            /\ Strategy(p_scores) = "market"
            /\ p_scores.comp_score = 500

(***************************************************************************)
(* SpecFec: one call of get_fec_candidates_total_receipts, one provider    *)
(* request per step, and the saturation calculate_saturation_fec makes of  *)
(* its answer.  f_locals holds the function's local variables and its      *)
(* position; f_history what happened to the requests of the call.          *)
(***************************************************************************)

FecFrame == UNCHANGED <<marketVars, rankVars, raceVars, batchVars, poolVars, rescoreVars, fnVars, cacheVars>>

max_retries == 3

retry_delay == 1

MaxReceipts == 2

\* the candidate listings the provider can answer with
CandidateListings == {<<>>, <<"C1">>, <<"C1", "C2">>, <<"", "C2">>}

\* the provider's answers to a listing request and to a totals request:
\* "error" is a timeout or an error status, "badshape" a body whose results
\* cannot be iterated, "malformed" a body that is not an object
ListingResponses ==
    {[kind |-> k, candidates |-> <<>>] : k \in {"429", "error", "badshape", "malformed"}}
        \cup {[kind |-> "ok", candidates |-> c] : c \in CandidateListings}

TotalsResponses ==
    {[kind |-> k, receipts |-> 0] : k \in {"429", "error", "malformed"}}
        \cup {[kind |-> "ok", receipts |-> r] : r \in 0..MaxReceipts}

\* lines 1006-1010: sorted(set(...), reverse=True)
cycles_to_check(cycle) == IF cycle >= 2024 THEN <<cycle, cycle - 2>> ELSE <<cycle>>

\* a retry loop that never gives up
InRangeUnbounded(attempt) == attempt >= 0

\* for attempt in range(max_retries)
InRange(attempt) == attempt < max_retries

\* 2 ** attempt
Pow2(attempt) == IF attempt = 0 THEN 1 ELSE IF attempt = 1 THEN 2 ELSE 4

\* line 1142, or an exception that leaves the function
Returned(l) ==
    [l EXCEPT !.pc = "done", !.result = [raised |-> FALSE, total |-> l.total_receipts]]

Raised(l) == [l EXCEPT !.pc = "done", !.result = [raised |-> TRUE, total |-> 0]]

\* the next check_cycle of line 1015, or the return
AfterCycle(l) ==
    IF l.ci < Len(l.cycles)
    THEN [l EXCEPT !.pc = "listing", !.ci = @ + 1, !.attempt = 0]
    ELSE Returned(l)

\* lines 1060-1068: the next candidate with an id not seen before, from place
\* from on; with none left the listing's retry loop is left (line 1117)
StartCandidate(l, from) ==
    LET fresh == {k \in from..Len(l.candidates) :
                     /\ l.candidates[k] # ""
                     /\ l.candidates[k] \notin l.candidate_ids_seen}
    IN  IF fresh = {} THEN AfterCycle(l)
        ELSE LET k == CHOOSE k \in fresh : \A j \in fresh : k <= j
             IN  [l EXCEPT !.pc = "totals", !.k = k, !.tci = 1, !.totals_attempt = 0,
                           !.max_receipts = 0,
                           !.candidate_ids_seen = @ \cup {l.candidates[k]}]

\* the next total_cycle of line 1069, or lines 1111-1112 and the next candidate
AfterTotalCycle(l) ==
    IF l.tci < Len(l.cycles)
    THEN [l EXCEPT !.tci = @ + 1, !.totals_attempt = 0]
    ELSE StartCandidate([l EXCEPT !.total_receipts =
                                      IF l.max_receipts > 0 THEN @ + l.max_receipts ELSE @],
                        l.k + 1)

\* one pass of the listing's retry loop, lines 1035-1137
ListingAttempt(l, response) ==
    IF response.kind \in {"429", "error"}
    THEN (IF InRange(l.attempt + 1) THEN [l EXCEPT !.attempt = @ + 1] ELSE AfterCycle(l))
    ELSE IF response.kind = "badshape" THEN AfterCycle(l)
    ELSE IF response.kind = "malformed" THEN Raised(l)
    ELSE StartCandidate([l EXCEPT !.candidates = response.candidates], 1)

\* one pass of the totals' retry loop, lines 1078-1109
TotalsAttempt(l, response) ==
    IF response.kind \in {"429", "error"}
    THEN (IF InRange(l.totals_attempt + 1) THEN [l EXCEPT !.totals_attempt = @ + 1]
          ELSE AfterTotalCycle(l))
    ELSE IF response.kind = "malformed" THEN Raised(l)
    ELSE AfterTotalCycle([l EXCEPT !.max_receipts = Max(@, response.receipts)])

\* what the pass leaves in the history of the call: the request it belongs
\* to has been sent once more; a failed pass that is not the last one sleeps
\* retry_delay * 2 ** attempt
Record(history, attempt, response) ==
    LET made == IF attempt = 0 THEN 1 ELSE history.made + 1
        waits == IF attempt = 0 THEN <<>> ELSE history.waits
        failed == response.kind \in {"429", "error"}
    IN  [made |-> made,
         waits |-> IF failed /\ attempt < max_retries - 1
                   THEN Append(waits, retry_delay * Pow2(attempt)) ELSE waits,
         answered |-> history.answered \/ response.kind = "ok",
         exhausted |-> history.exhausted \/ (failed /\ ~InRange(attempt + 1)),
         badshape |-> history.badshape \/ response.kind = "badshape",
         malformed |-> history.malformed \/ response.kind = "malformed",
         queried |-> history.queried, listed |-> history.listed,
         reported |-> history.reported]

FecRaces == {race \in Races : race.level = "FEDERAL"}

FecCycles == {2022, 2026}

InitFec ==
    /\ f_in \in [impl : Impls, token : BOOLEAN, race : FecRaces, cycle : FecCycles]
    /\ (f_in.impl = "find_scores" => f_in.token)
    /\ f_locals = FecLocalsStart
    /\ f_history = FecHistoryStart
    /\ MarketIdle /\ RankIdle /\ RaceIdle /\ BatchIdle /\ PoolIdle /\ RescoreIdle /\ FnIdle /\ CacheIdle

\* lines 1002-1015; the server returns 0.0 at once without a token
\* (get_importance_scores.py lines 351-352)
FecStart ==
    /\ f_locals.pc = "start"
    /\ f_locals' = IF f_in.impl = "server" /\ ~f_in.token
                   THEN Returned(f_locals)
                   ELSE [f_locals EXCEPT !.pc = "listing", !.ci = 1, !.attempt = 0,
                                         !.cycles = cycles_to_check(f_in.cycle)]
    /\ UNCHANGED <<f_in, f_history>>
    /\ FecFrame

FecListingRequest ==
    /\ f_locals.pc = "listing"
    /\ \E response \in ListingResponses :
          /\ f_locals' = ListingAttempt(f_locals, response)
          /\ f_history' =
                [Record(f_history, f_locals.attempt, response) EXCEPT
                    !.queried = @ \cup {f_locals.cycles[f_locals.ci]},
                    !.listed = IF response.kind = "ok"
                               THEN @ \cup ({response.candidates[k] :
                                                k \in 1..Len(response.candidates)} \ {""})
                               ELSE @]
    /\ UNCHANGED f_in
    /\ FecFrame

FecTotalsRequest ==
    /\ f_locals.pc = "totals"
    /\ \E response \in TotalsResponses :
          /\ f_locals' = TotalsAttempt(f_locals, response)
          /\ f_history' =
                [Record(f_history, f_locals.totals_attempt, response) EXCEPT
                    !.reported = IF response.kind = "ok"
                                 THEN @ \cup {[candidate_id |-> f_locals.candidates[f_locals.k],
                                               cycle |-> f_locals.cycles[f_locals.tci],
                                               receipts |-> response.receipts]}
                                 ELSE @]
    /\ UNCHANGED f_in
    /\ FecFrame

NextFec ==
    \/ FecStart
    \/ FecListingRequest
    \/ FecTotalsRequest

SpecFec == InitFec /\ [][NextFec]_vars

\* the function runs to its end: every request has a timeout and every
\* sleep is finite
FairSpecFec == SpecFec /\ WF_vars(NextFec)

\* the saturation of the race once the receipts are in
FecSaturation ==
    calculate_saturation_fec(f_in.race.name, f_in.cycle,
                             [f_locals.result EXCEPT !.total = 1000000 * @])

\* C8: for a parseable FEDERAL race calculate_saturation_fec answers 1.0 when
\* the provider answered every request and reported zero receipts, and 0.5
\* with quality none and an error when the provider's requests failed; a race
\* whose requests all failed is never given 1.0.  (Violated: the failures are
\* swallowed by get_fec_candidates_total_receipts, which returns 0.0.)
C8_FailedRequestsNeverZeroReceipts ==
    f_locals.pc = "done" =>
        /\ (/\ f_history.answered /\ ~f_history.exhausted
            /\ ~f_history.badshape /\ ~f_history.malformed
            /\ f_locals.result.total = 0)
              => FecSaturation.score = 1000
        /\ (f_history.exhausted /\ ~f_history.answered /\ ~f_history.badshape)
              => /\ FecSaturation.score = 500
                 /\ FecSaturation.data_quality = "none"
                 /\ FecSaturation.error

\* C9: every request of get_fec_candidates_total_receipts is sent at most
\* three times, the sleeps between its attempts are 1s and then 2s, the call
\* ends for every sequence of provider answers, and unless a body was not an
\* object it ends by returning a number.
C9_RetriesBoundedAndTerminates ==
    /\ [](/\ f_history.made <= 3
          /\ f_history.waits \in {<<>>, <<1>>, <<1, 2>>}
          /\ Len(f_history.waits) <= f_history.made
          /\ (f_locals.pc = "done" /\ ~f_history.malformed)
                => (~f_locals.result.raised /\ f_locals.result.total \in Nat))
    /\ <>(f_locals.pc = "done")

\* a call that ended with a number after its last request was sent three
\* times, with sleeps of 1s and 2s, an earlier request having been answered
C9_Witness ==
    /\ f_locals.pc = "done" /\ ~f_locals.result.raised
    /\ f_history.exhausted /\ f_history.answered
    /\ f_history.made = 3 /\ f_history.waits = <<1, 2>>
    /\ f_locals.result.total > 0

\* the largest receipts the provider reported for a candidate in the call
MaxReported(candidate_id) ==
    LET receipts == {t.receipts : t \in {u \in f_history.reported :
                                           u.candidate_id = candidate_id}}
    IN  IF receipts = {} THEN 0 ELSE CHOOSE r \in receipts : \A s \in receipts : s <= r

RECURSIVE SumOfMaxReported(_)
SumOfMaxReported(candidate_ids) ==
    IF candidate_ids = {} THEN 0
    ELSE LET c == CHOOSE c \in candidate_ids : TRUE
         IN  MaxReported(c) + SumOfMaxReported(candidate_ids \ {c})

\* C18: a call of get_fec_candidates_total_receipts queries the listing of
\* the cycle passed and of the two-year cycle before it, and returns the sum,
\* over the distinct candidates found, of the candidate's largest receipts
\* reported for those two cycles.
C18_SumOfMaxOverBothCycles ==
    (f_locals.pc = "done" /\ f_in.token /\ ~f_locals.result.raised) =>
        /\ f_history.queried = {f_in.cycle, f_in.cycle - 2}
        /\ \A c \in f_history.listed : \A y \in {f_in.cycle, f_in.cycle - 2} :
              \E t \in f_history.reported : t.candidate_id = c /\ t.cycle = y
        /\ f_locals.result.total = SumOfMaxReported(f_history.listed)

(***************************************************************************)
(* SpecBatch: get_importance_scores and get_monetary_estimate_value on a   *)
(* list of races, one race of the loop per step.  relevance_score is held  *)
(* in ten-thousandths, the dollar-power multiplier in tenths.              *)
(***************************************************************************)

BatchFrame == UNCHANGED <<marketVars, rankVars, raceVars, fecVars, poolVars, rescoreVars, fnVars, cacheVars>>

MaxBatch == 3

\* what happens to one race in get_importance_scores: the leverage score
\* calculate_race_leverage_score returns, or Null when it raises
ImportanceFates == {Null, 0, 2000, 5000}

\* what happens to one race in get_monetary_estimate_value: where its volume
\* estimate comes from ("parallel": the batch of step 1, "sync": the call of
\* line 737, "fallback": the rule-based classifier of lines 742-751,
\* "raises": the fallback raised too, "volume_raises": the estimate is there
\* and calculate_race_total_volume raised), and the multiplier it leads to
MonetaryFates ==
    [estimate : {"parallel", "sync", "fallback"}, multiplier : {10, 24}]
        \cup [estimate : {"raises", "volume_raises"}, multiplier : {10}]

NoMetadata ==
    [error |-> FALSE, monetary_volume_error |-> FALSE, stage |-> "",
     leverage_score |-> Absent, dollar_power_multiplier |-> Absent, method |-> ""]

\* a race as get_races makes it (get_races.py lines 243-244)
FetchedRace(race_id) ==
    [race_id |-> race_id, relevance_score |-> 0, metadata |-> NoMetadata]

\* a race as get_importance_scores leaves it
ScoredRace(race_id, fate) ==
    IF fate = Null
    THEN [FetchedRace(race_id) EXCEPT !.metadata.error = TRUE]
    ELSE [FetchedRace(race_id) EXCEPT !.relevance_score = fate,
                                      !.metadata.leverage_score = fate,
                                      !.metadata.stage = "get_importance_scores"]

\* lines 715-732 of get_importance_scores.py for one race
ImportanceRace(race, fate) ==
    IF fate = Null
    THEN [race EXCEPT !.metadata.error = TRUE]
    ELSE [race EXCEPT !.relevance_score = fate,
                      !.metadata.leverage_score = fate,
                      !.metadata.stage = "get_importance_scores"]

\* lines 690-725 of get_monetary_estimate_value.py: the volume estimates
\* of the parallel step, by race index
VolumeEstimates(fates) ==
    {i \in 1..Len(fates) : fates[i].estimate \in {"parallel", "volume_raises"}}

\* lines 728-790 of get_monetary_estimate_value.py for one race
MonetaryRace(race, fate, estimated) ==
    IF (~estimated /\ fate.estimate = "raises") \/ fate.estimate = "volume_raises"
    THEN [race EXCEPT !.metadata.monetary_volume_error = TRUE]
    ELSE [race EXCEPT !.relevance_score = (race.relevance_score * fate.multiplier) \div 10,
                      !.metadata.dollar_power_multiplier = fate.multiplier,
                      !.metadata.method = IF ~estimated /\ fate.estimate = "fallback"
                                          THEN "rule_based_fallback" ELSE "llm",
                      !.metadata.stage = "get_monetary_estimate_value"]

\* a loop inside one try block: an exception leaves it
NextIndexAbort(i, n, failed) == IF failed THEN n + 1 ELSE i + 1

\* the try block is inside the loop: after an exception the loop goes on
\* with the next race
NextIndex(i, n, failed) == i + 1

InitBatch ==
    /\ b_stage \in {"get_importance_scores", "get_monetary_estimate_value"}
    /\ IF b_stage = "get_importance_scores"
       THEN /\ b_fates \in SeqsUpTo(ImportanceFates, MaxBatch)
            /\ b_input = [i \in 1..Len(b_fates) |-> FetchedRace(i)]
       ELSE /\ b_fates \in SeqsUpTo(MonetaryFates, MaxBatch)
            /\ \E before \in [1..Len(b_fates) -> {Null, 2000}] :
                  b_input = [i \in 1..Len(b_fates) |-> ScoredRace(i, before[i])]
    /\ b_races = b_input
    /\ b_volume_estimates = {}
    /\ b_pc = IF b_stage = "get_importance_scores" THEN "loop" ELSE "estimate"
    /\ b_i = 1
    /\ b_returned = <<>>
    /\ MarketIdle /\ RankIdle /\ RaceIdle /\ FecIdle /\ PoolIdle /\ RescoreIdle /\ FnIdle /\ CacheIdle

\* one race of the loop of lines 711-732
ScoreImportance ==
    /\ b_pc = "loop" /\ b_stage = "get_importance_scores" /\ b_i <= Len(b_races)
    /\ b_races' = [b_races EXCEPT ![b_i] = ImportanceRace(@, b_fates[b_i])]
    /\ b_i' = NextIndex(b_i, Len(b_races), b_fates[b_i] = Null)
    /\ UNCHANGED <<b_stage, b_input, b_fates, b_volume_estimates, b_pc, b_returned>>
    /\ BatchFrame

\* step 1 of get_monetary_estimate_value
EstimateVolumes ==
    /\ b_pc = "estimate"
    /\ b_volume_estimates' = VolumeEstimates(b_fates)
    /\ b_pc' = "loop"
    /\ UNCHANGED <<b_stage, b_input, b_fates, b_races, b_i, b_returned>>
    /\ BatchFrame

\* one race of the loop of lines 728-790
ScoreMonetary ==
    /\ b_pc = "loop" /\ b_stage = "get_monetary_estimate_value" /\ b_i <= Len(b_races)
    /\ b_races' = [b_races EXCEPT ![b_i] = MonetaryRace(@, b_fates[b_i],
                                                        b_i \in b_volume_estimates)]
    /\ b_i' = NextIndex(b_i, Len(b_races),
                        b_fates[b_i].estimate \in {"raises", "volume_raises"})
    /\ UNCHANGED <<b_stage, b_input, b_fates, b_volume_estimates, b_pc, b_returned>>
    /\ BatchFrame

\* return races
ReturnRaces ==
    /\ b_pc = "loop" /\ b_i > Len(b_races)
    /\ b_returned' = b_races
    /\ b_pc' = "done"
    /\ UNCHANGED <<b_stage, b_input, b_fates, b_volume_estimates, b_races, b_i>>
    /\ BatchFrame

NextBatch ==
    \/ ScoreImportance
    \/ EstimateVolumes
    \/ ScoreMonetary
    \/ ReturnRaces

SpecBatch == InitBatch /\ [][NextBatch]_vars

\* the race's scoring raised
Failed(fate) ==
    IF b_stage = "get_importance_scores" THEN fate = Null
    ELSE fate.estimate \in {"raises", "volume_raises"}

\* C10: both stages return every input race in input order; a race whose
\* scoring failed keeps the relevance_score it came with and has the error
\* in its metadata, and every other race of the list is scored.
C10_BatchSurvivesRaceFailure ==
    b_pc = "done" =>
        /\ Len(b_returned) = Len(b_input)
        /\ \A i \in 1..Len(b_input) :
              /\ b_returned[i].race_id = b_input[i].race_id
              /\ IF Failed(b_fates[i])
                 THEN /\ b_returned[i].relevance_score = b_input[i].relevance_score
                      /\ IF b_stage = "get_importance_scores"
                         THEN b_returned[i].metadata.error
                         ELSE b_returned[i].metadata.monetary_volume_error
                 ELSE /\ b_returned[i].metadata.stage = b_stage
                      /\ b_returned[i].relevance_score =
                            IF b_stage = "get_importance_scores" THEN b_fates[i]
                            ELSE (b_input[i].relevance_score * b_fates[i].multiplier) \div 10

\* a monetary stage whose first race failed with a score to keep and whose
\* later race was still multiplied
C10_Witness ==
    /\ b_pc = "done" /\ b_stage = "get_monetary_estimate_value"
    /\ Len(b_input) >= 2
    /\ Failed(b_fates[1]) /\ b_returned[1].relevance_score = 2000
    /\ \E i \in 2..Len(b_input) :
          /\ ~Failed(b_fates[i])
          /\ b_returned[i].relevance_score = 4800

(***************************************************************************)
(* The monetary-volume classifier (get_monetary_estimate_value.py and      *)
(* modules/cash_volume_estimate/estimate_cash_volume.py).  A category name *)
(* or a token of the classification service is a record of its words and   *)
(* of the separator between them ("_" or " "); dollar volumes are in units *)
(* of 500 dollars.                                                         *)
(***************************************************************************)

Str(words, sep) == [words |-> words, sep |-> sep]

\* "a in b" for separated words: one word is in b when it is one of b's
\* words, several words when b has them in a row with the same separator
InStr(a, b) ==
    /\ Contains(b.words, a.words)
    /\ Len(a.words) >= 2 => a.sep = b.sep

\* s.replace(old, new) for the separators "_" and " "
replace(s, old, new) == IF s.sep = old THEN [s EXCEPT !.sep = new] ELSE s

\* the keys of CLASSIFICATION_CATEGORIES in the dictionary's order, with
\* the (min, max) volume of each
CLASSIFICATION_CATEGORIES ==
    << [key |-> Str(<<"presidential">>, "_"), min |-> 2000000, max |-> 4000000],
       [key |-> Str(<<"competitive", "senate">>, "_"), min |-> 20000, max |-> 200000],
       [key |-> Str(<<"safe", "senate">>, "_"), min |-> 2000, max |-> 20000],
       [key |-> Str(<<"competitive", "house">>, "_"), min |-> 2000, max |-> 20000],
       [key |-> Str(<<"safe", "house">>, "_"), min |-> 200, max |-> 2000],
       [key |-> Str(<<"governor", "large", "state">>, "_"), min |-> 20000, max |-> 200000],
       [key |-> Str(<<"governor", "small", "state">>, "_"), min |-> 2000, max |-> 20000],
       [key |-> Str(<<"state", "senate", "competitive">>, "_"), min |-> 100, max |-> 1000],
       [key |-> Str(<<"state", "house">>, "_"), min |-> 20, max |-> 200],
       [key |-> Str(<<"mayor", "major", "city">>, "_"), min |-> 10000, max |-> 100000],
       [key |-> Str(<<"mayor", "mid", "size", "city">>, "_"), min |-> 200, max |-> 10000],
       [key |-> Str(<<"mayor", "small", "city">>, "_"), min |-> 20, max |-> 200],
       [key |-> Str(<<"city", "council", "major", "city">>, "_"), min |-> 200, max |-> 2000],
       [key |-> Str(<<"city", "council", "typical">>, "_"), min |-> 10, max |-> 100],
       [key |-> Str(<<"school", "board">>, "_"), min |-> 2, max |-> 40],
       [key |-> Str(<<"county", "commissioner">>, "_"), min |-> 20, max |-> 400] >>

Category(words) == Str(words, "_")

IsCategory(s) ==
    \E i \in 1..Len(CLASSIFICATION_CATEGORIES) : CLASSIFICATION_CATEGORIES[i].key = s

MAJOR_CITIES ==
    << <<"NEW", "YORK">>, <<"NYC">>, <<"LOS", "ANGELES">>, <<"LA">>, <<"CHICAGO">>,
       <<"HOUSTON">>, <<"PHOENIX">>, <<"PHILADELPHIA">>, <<"SAN", "ANTONIO">>,
       <<"SAN", "DIEGO">>, <<"DALLAS">>, <<"SAN", "JOSE">>, <<"AUSTIN">>,
       <<"JACKSONVILLE">>, <<"SAN", "FRANCISCO">>, <<"COLUMBUS">>,
       <<"FORT", "WORTH">>, <<"CHARLOTTE">>, <<"INDIANAPOLIS">>, <<"SEATTLE">>,
       <<"DENVER">>, <<"WASHINGTON">>, <<"DC">> >>

LARGE_STATES ==
    << <<"CALIFORNIA">>, <<"TEXAS">>, <<"FLORIDA">>, <<"NEW", "YORK">>,
       <<"PENNSYLVANIA">>, <<"ILLINOIS">>, <<"OHIO">>, <<"GEORGIA">>,
       <<"NORTH", "CAROLINA">>, <<"MICHIGAN">>, <<"NEW", "JERSEY">>, <<"VIRGINIA">>,
       <<"WASHINGTON">>, <<"ARIZONA">>, <<"MASSACHUSETTS">>, <<"TENNESSEE">>,
       <<"INDIANA">>, <<"MISSOURI">>  >>

\* str.upper() of one token: the tokens of the race names in use; the
\* levels, the digits and the punctuation are their own upper case
upper(s) ==
    CASE s = "Senate" -> "SENATE"
      [] s = "House" -> "HOUSE"
      [] s = "of" -> "OF"
      [] s = "Representatives" -> "REPRESENTATIVES"
      [] s = "Ohio" -> "OHIO"
      [] s = "North" -> "NORTH"
      [] s = "Carolina" -> "CAROLINA"
      [] s = "State" -> "STATE"
      [] s = "Board" -> "BOARD"
      [] s = "Education" -> "EDUCATION"
      [] s = "Governor" -> "GOVERNOR"
      [] s = "Mayor" -> "MAYOR"
      [] s = "Columbus" -> "COLUMBUS"
      [] s = "Council" -> "COUNCIL"
      [] s = "School" -> "SCHOOL"
      [] s = "County" -> "COUNTY"
      [] s = "Commissioner" -> "COMMISSIONER"
      [] s = "District" -> "DISTRICT"
      [] s = "Congressional" -> "CONGRESSIONAL"
      [] s = "President" -> "PRESIDENT"
      [] s = "City" -> "CITY"
      [] s = "Montana" -> "MONTANA"
      [] s = "Springfield" -> "SPRINGFIELD"
      [] s = "9th" -> "9TH"
      [] OTHER -> s

UpperName(name) == [i \in 1..Len(name) |-> upper(name[i])]

AnyIn(list, name) == \E i \in 1..Len(list) : Contains(name, list[i])

\* classify_race_rule_based; a race without a position has the empty name
\* and level
classify_race_rule_based(race) ==
    LET race_name == UpperName(race.name)
        level == upper(race.level)
    IN  CASE level = "FEDERAL" /\ HasTok(race_name, "PRESIDENT") ->
                Category(<<"presidential">>)
          [] level = "FEDERAL" /\ ~HasTok(race_name, "PRESIDENT")
                /\ HasTok(race_name, "SENATE") ->
                Category(<<"competitive", "senate">>)
          [] level = "FEDERAL" /\ ~HasTok(race_name, "PRESIDENT")
                /\ ~HasTok(race_name, "SENATE")
                /\ (HasTok(race_name, "HOUSE") \/ HasTok(race_name, "REPRESENTATIVES")) ->
                Category(<<"competitive", "house">>)
          [] level = "STATE" /\ HasTok(race_name, "GOVERNOR") ->
                IF AnyIn(LARGE_STATES, race_name)
                THEN Category(<<"governor", "large", "state">>)
                ELSE Category(<<"governor", "small", "state">>)
          [] level = "STATE" /\ ~HasTok(race_name, "GOVERNOR")
                /\ HasTok(race_name, "SENATE") ->
                Category(<<"state", "senate", "competitive">>)
          [] level = "STATE" /\ ~HasTok(race_name, "GOVERNOR")
                /\ ~HasTok(race_name, "SENATE")
                /\ (HasTok(race_name, "HOUSE") \/ HasTok(race_name, "ASSEMBLY")) ->
                Category(<<"state", "house">>)
          [] level \in {"LOCAL", "CITY"} /\ HasTok(race_name, "MAYOR") ->
                IF AnyIn(MAJOR_CITIES, race_name)
                THEN Category(<<"mayor", "major", "city">>)
                ELSE Category(<<"mayor", "mid", "size", "city">>)
          [] level \in {"LOCAL", "CITY"} /\ ~HasTok(race_name, "MAYOR")
                /\ HasTok(race_name, "COUNCIL") ->
                IF AnyIn(MAJOR_CITIES, race_name)
                THEN Category(<<"city", "council", "major", "city">>)
                ELSE Category(<<"city", "council", "typical">>)
          [] level \in {"LOCAL", "CITY"} /\ ~HasTok(race_name, "MAYOR")
                /\ ~HasTok(race_name, "COUNCIL")
                /\ (Contains(race_name, <<"SCHOOL", "BOARD">>)
                    \/ Contains(race_name, <<"BOARD", "OF", "EDUCATION">>)) ->
                Category(<<"school", "board">>)
          [] level \in {"LOCAL", "CITY"} /\ ~HasTok(race_name, "MAYOR")
                /\ ~HasTok(race_name, "COUNCIL")
                /\ ~Contains(race_name, <<"SCHOOL", "BOARD">>)
                /\ ~Contains(race_name, <<"BOARD", "OF", "EDUCATION">>)
                /\ (HasTok(race_name, "COMMISSIONER") \/ HasTok(race_name, "COUNTY")) ->
                Category(<<"county", "commissioner">>)
          [] OTHER -> Category(<<"safe", "house">>)

\* get_estimated_volume: (min, max), with (10_000, 100_000) for a
\* classification that is no key
get_estimated_volume(classification) ==
    IF IsCategory(classification)
    THEN LET i == CHOOSE i \in 1..Len(CLASSIFICATION_CATEGORIES) :
                     CLASSIFICATION_CATEGORIES[i].key = classification
         IN  <<CLASSIFICATION_CATEGORIES[i].min, CLASSIFICATION_CATEGORIES[i].max>>
    ELSE <<20, 200>>

\* str(x).strip().lower() of a token of the service
lower(s) ==
    [s EXCEPT !.words = [i \in 1..Len(s.words) |->
        CASE s.words[i] = "Safe" -> "safe"
          [] s.words[i] = "Senate" -> "senate"
          [] OTHER -> s.words[i]]]

\* the first key of CLASSIFICATION_CATEGORIES that partially matches the
\* token, 0 when none does
PartialMatch(classification) ==
    LET hits == {i \in 1..Len(CLASSIFICATION_CATEGORIES) :
                    LET cat == CLASSIFICATION_CATEGORIES[i].key
                    IN  \/ InStr(replace(cat, "_", " "), classification)
                        \/ InStr(replace(classification, "_", " "), cat)}
    IN  IF hits = {} THEN 0 ELSE CHOOSE i \in hits : \A j \in hits : i <= j

\* the category a token with no exact, normalised or partial match leads
\* to, in the batch classifier of the server
UnmatchedServer(race) == classify_race_rule_based(race)

\* the same in classify_race_with_llm of estimate_cash_volume.py
UnmatchedModule(race) == Category(<<"safe", "house">>)

\* Validated without the fallback of lines 196-200: a token that matches no
\* category name is returned as it is
ValidatedUnchecked(token, unmatched) ==
    LET classification == lower(token)
        classification_normalized == replace(classification, " ", "_")
        partial == PartialMatch(classification)
    IN  IF IsCategory(classification) THEN classification
        ELSE IF IsCategory(classification_normalized) THEN classification_normalized
        ELSE IF partial # 0 THEN CLASSIFICATION_CATEGORIES[partial].key
        ELSE classification

\* lines 177-200 of get_monetary_estimate_value.py and 125-142 of
\* estimate_cash_volume.py: the category of one token of the response
Validated(token, unmatched) ==
    LET classification == lower(token)
        classification_normalized == replace(classification, " ", "_")
        partial == PartialMatch(classification)
    IN  IF IsCategory(classification) THEN classification
        ELSE IF IsCategory(classification_normalized) THEN classification_normalized
        ELSE IF partial # 0 THEN CLASSIFICATION_CATEGORIES[partial].key
        ELSE unmatched

\* a null of the JSON array (Python None)
None == [words |-> <<>>, sep |-> "None"]

\* the response padded with None or truncated to the number of races
PadOrTruncate(classifications, n) ==
    [i \in 1..n |-> IF i <= Len(classifications) THEN classifications[i] ELSE None]

\* classify_races_batch_with_llm of the server.  response.kind is
\* "no_client" (client is None), "api_error" (the request raised),
\* "not_json" (the text is no JSON), "not_list" (JSON that is no array) or
\* "list" (response.items: tokens and nulls)
classify_races_batch_with_llm(races, response) ==
    IF response.kind # "list" \/ Len(races) = 0
    THEN [i \in 1..Len(races) |-> classify_race_rule_based(races[i])]
    ELSE LET classifications == PadOrTruncate(response.items, Len(races))
         IN  [i \in 1..Len(races) |->
                IF classifications[i] = None
                THEN classify_race_rule_based(races[i])
                ELSE Validated(classifications[i], UnmatchedServer(races[i]))]

\* classify_race_with_llm of the server: the batch classifier on one race
classify_race_with_llm_server(race, response) ==
    classify_races_batch_with_llm(<<race>>, response)[1]

\* classify_race_with_llm of estimate_cash_volume.py: response.kind is
\* "api_error" or "token" (response.token)
classify_race_with_llm(race, response) ==
    IF response.kind = "api_error" THEN classify_race_rule_based(race)
    ELSE Validated(response.token, UnmatchedModule(race))

(***************************************************************************)
(* SpecPool: step 1 of get_monetary_estimate_value (the thread pool of     *)
(* _estimate_volumes_for_batch workers and the as_completed loop of the    *)
(* main thread) and the choice of each race's volume estimate in step 2.   *)
(* Indices are 1-based.  A race's cache key is its race_id.                *)
(***************************************************************************)

PoolFrame == UNCHANGED <<marketVars, rankVars, raceVars, fecVars, batchVars, rescoreVars, fnVars, cacheVars>>

MaxPool == 5

\* BATCH_SIZE is 10 in the source; it is scaled with MaxPool so that the
\* races make several batches
BATCH_SIZE == 2

\* position.name when the provider's JSON holds a null there: .upper() on
\* it raises
NoneName == <<"None">>

PoolRaces ==
    << [race_id |-> 1, name |-> <<"U.S.", "Senate", "-", "Ohio">>, level |-> "FEDERAL"],
       [race_id |-> 2, name |-> <<"U.S.", "House", "of", "Representatives", "-", "North",
                                  "Carolina", "9th", "Congressional", "District">>,
        level |-> "FEDERAL"],
       [race_id |-> 3, name |-> <<"Ohio", "Governor">>, level |-> "STATE"],
       [race_id |-> 4, name |-> <<"Ohio", "State", "Senate", "-", "District", "7">>,
        level |-> "STATE"],
       [race_id |-> 5, name |-> <<"Columbus", "Mayor">>, level |-> "CITY"],
       [race_id |-> 6, name |-> <<"Springfield", "City", "Council">>, level |-> "LOCAL"] >>

\* the token the classification service answers for each of PoolRaces
PoolAnswers ==
    << Str(<<"Safe", "Senate">>, "_"), Str(<<"safe", "house">>, " "),
       Str(<<"governor", "small", "state">>, "_"), Str(<<"state", "house">>, "_"),
       Str(<<"mayor", "mid", "size", "city">>, "_"),
       Str(<<"city", "council", "major", "city">>, " ") >>

\* lines 622-630: the volume estimate of a classification
VolumeEstimate(classification, method) ==
    LET range == get_estimated_volume(classification)
    IN  [classification |-> classification,
         min_estimate |-> range[1], max_estimate |-> range[2],
         mid_estimate |-> (range[1] + range[2]) \div 2,
         method |-> method]

\* the value None where a volume estimate is expected
NoEstimate ==
    [classification |-> None, min_estimate |-> 0, max_estimate |-> 0,
     mid_estimate |-> 0, method |-> "None"]

RuleBasedRaises(race) == race.name = NoneName

\* the service's response to a batch: the answers of its races in order,
\* or a failed request
ServiceResponses(races) ==
    { [kind |-> "list", items |-> [k \in 1..Len(races) |-> PoolAnswers[races[k].race_id]]],
      [kind |-> "api_error", items |-> <<>>] }

\* classify_races_batch_with_llm raises when it calls the rule-based
\* classifier on a race it raises for: in the fallback for the whole
\* batch, or for a token it cannot match
BatchClassifierRaises(races, response) ==
    \E k \in 1..Len(races) :
        /\ RuleBasedRaises(races[k])
        /\ \/ response.kind # "list"
           \/ LET item == PadOrTruncate(response.items, Len(races))[k]
              IN  \/ item = None
                  \/ LET c == lower(item)
                     IN  /\ ~IsCategory(c) /\ ~IsCategory(replace(c, " ", "_"))
                         /\ PartialMatch(c) = 0

\* get_cached_volume_estimate raises (the cache file holds JSON that is no
\* object: cache_data.get is no attribute of a list)
CacheReadRaises(cache) == cache.kind = "list"

Cached(cache, race) == race.race_id \in DOMAIN cache.estimates

\* for idx in indices: results.append((idx, cached_results.get(idx)))
\* with the position in the batch in place of the race's index
BatchResultsByPosition(indices, cached_results) ==
    [k \in 1..Len(indices) |->
        [race_index |-> k, volume_estimate |-> cached_results[indices[k]]]]

\* lines 652-657: the results in order, each with the index of its race
BatchResults(indices, cached_results) ==
    [k \in 1..Len(indices) |->
        [race_index |-> indices[k], volume_estimate |-> cached_results[indices[k]]]]

\* _estimate_volumes_for_batch on the batch of the races at indices, with
\* the cache as it is and the service's response: the results it returns
\* and the cache it leaves
estimate_volumes_for_batch(races, indices, cache, response) ==
    LET idxs == {indices[k] : k \in 1..Len(indices)}
        to_classify == SelectSeq(indices, LAMBDA i : ~Cached(cache, races[i]))
        races_to_classify == [k \in 1..Len(to_classify) |-> races[to_classify[k]]]
        raised == BatchClassifierRaises(races_to_classify, response)
        classifications ==
            IF raised THEN <<>>
            ELSE classify_races_batch_with_llm(races_to_classify, response)
        PositionOf(i) == CHOOSE k \in 1..Len(to_classify) : to_classify[k] = i
        cached_results ==
            [i \in idxs |->
                IF Cached(cache, races[i]) THEN cache.estimates[races[i].race_id]
                ELSE IF ~raised THEN VolumeEstimate(classifications[PositionOf(i)], "llm")
                ELSE IF RuleBasedRaises(races[i]) THEN NoEstimate
                ELSE VolumeEstimate(classify_race_rule_based(races[i]), "rule_based")]
        saved == IF raised THEN {} ELSE {races[to_classify[k]].race_id : k \in 1..Len(to_classify)}
        RaceOf(id) == CHOOSE i \in idxs : races[i].race_id = id
    IN  [results |-> BatchResults(indices, cached_results),
         cache |-> [cache EXCEPT !.estimates =
                       [id \in (DOMAIN cache.estimates) \cup saved |->
                           IF id \in saved THEN cached_results[RaceOf(id)]
                           ELSE cache.estimates[id]]]]

\* lines 693-696: the batches of (index, race), by index
race_batches(n) ==
    [b \in 1..((n + BATCH_SIZE - 1) \div BATCH_SIZE) |->
        [k \in 1..(Min((b - 1) * BATCH_SIZE + BATCH_SIZE, n) - (b - 1) * BATCH_SIZE) |->
            (b - 1) * BATCH_SIZE + k]]

\* estimate_race_monetary_volume(race, use_cache=True) of the server:
\* whether it raises, the estimate it returns and the cache it leaves
estimate_race_monetary_volume(race, cache, response) ==
    IF CacheReadRaises(cache)
    THEN [raises |-> TRUE, estimate |-> NoEstimate, cache |-> cache]
    ELSE IF Cached(cache, race)
    THEN [raises |-> FALSE, estimate |-> cache.estimates[race.race_id], cache |-> cache]
    ELSE IF BatchClassifierRaises(<<race>>, response)
    THEN [raises |-> TRUE, estimate |-> NoEstimate, cache |-> cache]
    ELSE LET result == VolumeEstimate(classify_race_with_llm_server(race, response), "llm")
         IN  [raises |-> FALSE, estimate |-> result,
              cache |-> [cache EXCEPT !.estimates =
                            [id \in (DOMAIN cache.estimates) \cup {race.race_id} |->
                                IF id = race.race_id THEN result ELSE cache.estimates[id]]]]

\* lines 730-760: the volume estimate step 2 uses for the race at index i.
\* state is "used" or "error" (monetary_volume_error)
StepTwoEstimate(race, i, volume_estimates, cache, response) ==
    IF i \in DOMAIN volume_estimates
    THEN [state |-> "used", estimate |-> volume_estimates[i], cache |-> cache]
    ELSE LET sync == estimate_race_monetary_volume(race, cache, response)
         IN  IF ~sync.raises
             THEN [state |-> "used", estimate |-> sync.estimate, cache |-> sync.cache]
             ELSE IF RuleBasedRaises(race)
             THEN [state |-> "error", estimate |-> NoEstimate, cache |-> cache]
             ELSE [state |-> "used",
                   estimate |-> VolumeEstimate(classify_race_rule_based(race),
                                               "rule_based_fallback"),
                   cache |-> cache]

\* the races of a call: the first n of PoolRaces, some with a null name
PoolInputs ==
    UNION { { [i \in 1..n |-> IF i \in bad THEN [PoolRaces[i] EXCEPT !.name = NoneName]
                                           ELSE PoolRaces[i]] : bad \in SUBSET (1..n) }
            : n \in 0..MaxPool }

\* the cache file when the call starts: estimates saved by an earlier call
\* for some of the races, or JSON that is no object
PoolCaches(races) ==
    { [kind |-> "ok",
       estimates |-> [id \in ids |->
                        VolumeEstimate(Validated(PoolAnswers[id],
                                                 Category(<<"safe", "house">>)), "llm")]]
        : ids \in SUBSET {races[i].race_id : i \in 1..Len(races)} }
      \cup { [kind |-> "list", estimates |-> <<>>] }

PoolPending == [state |-> "pending", results |-> <<>>]

InitPool ==
    /\ q_races \in PoolInputs
    /\ q_cache \in PoolCaches(q_races)
    /\ q_pc = "submit"
    /\ q_futures = <<>>
    /\ q_volume_estimates = <<>>
    /\ q_batch_results = <<>>
    /\ q_k = 0
    /\ q_writers = {}
    /\ q_used = [i \in 1..Len(q_races) |-> [state |-> "pending", estimate |-> NoEstimate]]
    /\ q_i = 0
    /\ MarketIdle /\ RankIdle /\ RaceIdle /\ FecIdle /\ BatchIdle /\ RescoreIdle /\ FnIdle /\ CacheIdle

\* lines 693-707: the batches are made and every one is submitted
SubmitBatches ==
    /\ q_pc = "submit"
    /\ q_futures' = [b \in 1..Len(race_batches(Len(q_races))) |-> PoolPending]
    /\ q_pc' = "as_completed"
    /\ UNCHANGED <<q_races, q_cache, q_volume_estimates, q_batch_results, q_k,
                   q_writers, q_used, q_i>>
    /\ PoolFrame

\* a worker runs _estimate_volumes_for_batch on its batch to the end
WorkerEstimatesBatch(b) ==
    /\ q_futures[b].state = "pending"
    /\ LET indices == race_batches(Len(q_races))[b]
           batch_races == [k \in 1..Len(indices) |-> q_races[indices[k]]]
       IN  IF CacheReadRaises(q_cache)
           THEN /\ q_futures' = [q_futures EXCEPT ![b] = [state |-> "raised", results |-> <<>>]]
                /\ UNCHANGED q_cache
           ELSE \E response \in ServiceResponses(
                        SelectSeq(batch_races, LAMBDA r : ~Cached(q_cache, r))) :
                    LET out == estimate_volumes_for_batch(q_races, indices, q_cache, response)
                    IN  /\ q_futures' = [q_futures EXCEPT ![b] =
                                            [state |-> "finished", results |-> out.results]]
                        /\ q_cache' = out.cache
    /\ UNCHANGED <<q_pc, q_races, q_volume_estimates, q_batch_results, q_k,
                   q_writers, q_used, q_i>>
    /\ PoolFrame

\* lines 712-715: as_completed yields a future that is done and
\* future.result() returns its results or raises what the worker raised
TakeCompleted(b) ==
    /\ q_pc = "as_completed"
    /\ q_futures[b].state \in {"finished", "raised"}
    /\ q_futures' = [q_futures EXCEPT ![b].state =
                        IF @ = "finished" THEN "collected" ELSE "lost"]
    /\ IF q_futures[b].state = "finished"
       THEN /\ q_batch_results' = q_futures[b].results
            /\ q_k' = 1
            /\ q_pc' = "for_results"
       ELSE UNCHANGED <<q_batch_results, q_k, q_pc>>
    /\ UNCHANGED <<q_races, q_cache, q_volume_estimates, q_writers, q_used, q_i>>
    /\ PoolFrame

\* lines 716-717: one result of the batch; the main thread starts the
\* write of volume_estimates when the estimate is not None
BeginStore ==
    /\ q_pc = "for_results" /\ q_k <= Len(q_batch_results)
    /\ IF q_batch_results[q_k].volume_estimate # NoEstimate
       THEN /\ q_writers' = q_writers \cup {"main"}
            /\ q_pc' = "store"
            /\ UNCHANGED q_k
       ELSE /\ q_k' = q_k + 1
            /\ UNCHANGED <<q_writers, q_pc>>
    /\ UNCHANGED <<q_races, q_cache, q_futures, q_volume_estimates, q_batch_results,
                   q_used, q_i>>
    /\ PoolFrame

\* line 718: volume_estimates[race_index] = volume_estimate
EndStore ==
    /\ q_pc = "store"
    /\ LET r == q_batch_results[q_k]
       IN  q_volume_estimates' =
               [i \in (DOMAIN q_volume_estimates) \cup {r.race_index} |->
                   IF i = r.race_index THEN r.volume_estimate ELSE q_volume_estimates[i]]
    /\ q_writers' = q_writers \ {"main"}
    /\ q_k' = q_k + 1
    /\ q_pc' = "for_results"
    /\ UNCHANGED <<q_races, q_cache, q_futures, q_batch_results, q_used, q_i>>
    /\ PoolFrame

\* the for loop over the batch's results ends
EndResults ==
    /\ q_pc = "for_results" /\ q_k > Len(q_batch_results)
    /\ q_pc' = "as_completed"
    /\ UNCHANGED <<q_races, q_cache, q_futures, q_volume_estimates, q_batch_results,
                   q_k, q_writers, q_used, q_i>>
    /\ PoolFrame

\* as_completed is exhausted and the with block is left: every future is
\* done
PoolShutdown ==
    /\ q_pc = "as_completed"
    /\ \A b \in 1..Len(q_futures) : q_futures[b].state \in {"collected", "lost"}
    /\ q_pc' = "step2"
    /\ q_i' = 1
    /\ UNCHANGED <<q_races, q_cache, q_futures, q_volume_estimates, q_batch_results,
                   q_k, q_writers, q_used>>
    /\ PoolFrame

\* lines 728-760 for one race of step 2
UseEstimate ==
    /\ q_pc = "step2" /\ q_i <= Len(q_races)
    /\ \E response \in ServiceResponses(<<q_races[q_i]>>) :
          LET out == StepTwoEstimate(q_races[q_i], q_i, q_volume_estimates, q_cache, response)
          IN  /\ q_used' = [q_used EXCEPT ![q_i] =
                               [state |-> out.state, estimate |-> out.estimate]]
              /\ q_cache' = out.cache
    /\ q_i' = q_i + 1
    /\ UNCHANGED <<q_pc, q_races, q_futures, q_volume_estimates, q_batch_results,
                   q_k, q_writers>>
    /\ PoolFrame

PoolReturn ==
    /\ q_pc = "step2" /\ q_i > Len(q_races)
    /\ q_pc' = "done"
    /\ UNCHANGED <<q_races, q_cache, q_futures, q_volume_estimates, q_batch_results,
                   q_k, q_writers, q_used, q_i>>
    /\ PoolFrame

NextPool ==
    \/ SubmitBatches
    \/ \E b \in 1..Len(q_futures) : WorkerEstimatesBatch(b)
    \/ \E b \in 1..Len(q_futures) : TakeCompleted(b)
    \/ BeginStore
    \/ EndStore
    \/ EndResults
    \/ PoolShutdown
    \/ UseEstimate
    \/ PoolReturn

SpecPool == InitPool /\ [][NextPool]_vars

\* the classifications that are computed for the race at index i: the
\* service's answer for it and, when the rule-based classifier does not
\* raise for it, the rule-based one
ClassificationsOf(i) ==
    {Validated(PoolAnswers[PoolRaces[i].race_id], Category(<<"safe", "house">>))}
        \cup (IF RuleBasedRaises(q_races[i]) THEN {}
              ELSE {classify_race_rule_based(q_races[i])})

EstimatesOf(i) ==
    {VolumeEstimate(c, method) :
        c \in ClassificationsOf(i), method \in {"llm", "rule_based", "rule_based_fallback"}}

\* the main thread is not inside the loop over a batch's results
BetweenBatches == q_pc \in {"as_completed", "step2", "done"}

\* C11: whatever the order in which the workers finish and the main thread
\* takes their futures, volume_estimates holds at index i an estimate
\* computed for the race at index i and step 2 uses that one; every result
\* of a future that was taken is in volume_estimates; only the main thread
\* writes volume_estimates, so never two threads at once.
C11_EstimatesPairedKeptAndSingleWriter ==
    /\ q_writers \subseteq {"main"}
    /\ Cardinality(q_writers) <= 1
    /\ \A i \in DOMAIN q_volume_estimates :
          /\ i \in 1..Len(q_races)
          /\ q_volume_estimates[i] \in EstimatesOf(i)
    /\ BetweenBatches =>
          \A b \in 1..Len(q_futures) :
              q_futures[b].state = "collected" =>
                  \A k \in 1..Len(q_futures[b].results) :
                      LET r == q_futures[b].results[k]
                      IN  r.volume_estimate # NoEstimate =>
                              /\ r.race_index \in DOMAIN q_volume_estimates
                              /\ q_volume_estimates[r.race_index] = r.volume_estimate
    /\ \A i \in 1..Len(q_used) :
          q_used[i].state = "used" =>
              /\ q_used[i].estimate \in EstimatesOf(i)
              /\ i \in DOMAIN q_volume_estimates =>
                     q_used[i].estimate = q_volume_estimates[i]

\* the second batch finished and was taken while the first one had not
\* run: the estimate of the race at index 3, the first of the second
\* batch, is in volume_estimates under 3
C11_Witness ==
    /\ Len(q_futures) >= 2
    /\ q_futures[1].state = "pending"
    /\ q_futures[2].state = "collected"
    /\ q_pc = "as_completed"
    /\ BATCH_SIZE + 1 \in DOMAIN q_volume_estimates
    /\ q_volume_estimates[BATCH_SIZE + 1].method = "llm"

(***************************************************************************)
(* SpecRescore: the scoring stages applied again to race records that are  *)
(* scored already, with the same provider responses, donation amount and   *)
(* date: every race meets the same fate in each call of a stage.           *)
(***************************************************************************)

RescoreFrame == UNCHANGED <<marketVars, rankVars, raceVars, fecVars, batchVars, poolVars, fnVars, cacheVars>>

MaxRescore == 2

\* the stage calls of run_search, followed by both stages again or by
\* get_monetary_estimate_value on its own output
RescorePlans ==
    { <<"get_importance_scores", "get_monetary_estimate_value",
        "get_importance_scores", "get_monetary_estimate_value">>,
      <<"get_importance_scores", "get_monetary_estimate_value",
        "get_monetary_estimate_value">> }

relevance_scores(races) == [i \in 1..Len(races) |-> races[i].relevance_score]

InitRescore ==
    /\ s_plan \in RescorePlans
    /\ \E n \in 0..MaxRescore :
          /\ s_fates \in [importance : [1..n -> ImportanceFates],
                          monetary : [1..n -> MonetaryFates]]
          /\ s_races = [i \in 1..n |-> FetchedRace(i)]
    /\ s_history = <<>>
    /\ MarketIdle /\ RankIdle /\ RaceIdle /\ FecIdle /\ BatchIdle /\ PoolIdle /\ FnIdle /\ CacheIdle

\* get_importance_scores(races) on the list as it is
GetImportanceScores ==
    /\ s_plan # <<>> /\ Head(s_plan) = "get_importance_scores"
    /\ s_races' = [i \in 1..Len(s_races) |->
                      ImportanceRace(s_races[i], s_fates.importance[i])]
    /\ s_history' = Append(s_history, relevance_scores(s_races'))
    /\ s_plan' = Tail(s_plan)
    /\ UNCHANGED s_fates
    /\ RescoreFrame

\* get_monetary_estimate_value(races, donation_amount) on the list as it is
GetMonetaryEstimateValue ==
    /\ s_plan # <<>> /\ Head(s_plan) = "get_monetary_estimate_value"
    /\ s_races' = [i \in 1..Len(s_races) |->
                      MonetaryRace(s_races[i], s_fates.monetary[i],
                                   i \in VolumeEstimates(s_fates.monetary))]
    /\ s_history' = Append(s_history, relevance_scores(s_races'))
    /\ s_plan' = Tail(s_plan)
    /\ UNCHANGED s_fates
    /\ RescoreFrame

NextRescore ==
    \/ GetImportanceScores
    \/ GetMonetaryEstimateValue

SpecRescore == InitRescore /\ [][NextRescore]_vars

\* C12: the scores after the stages were applied a second time, and after
\* get_monetary_estimate_value was applied again to its own output, are
\* the scores after the first application of both stages.
C12_RescoringKeepsScores ==
    s_plan = <<>> /\ Len(s_history) >= 3 => s_history[Len(s_history)] = s_history[2]

(***************************************************************************)
(* SpecClassify: one call of classify_races_batch_with_llm (server) or of  *)
(* classify_race_with_llm (estimate_cash_volume.py) with a response of the *)
(* classification service.                                                 *)
(***************************************************************************)

FnFrame == UNCHANGED <<marketVars, rankVars, raceVars, fecVars, batchVars, poolVars, rescoreVars, cacheVars>>

MaxClassify == 2

ClassifyRaces == {[name |-> PoolRaces[i].name, level |-> PoolRaces[i].level] : i \in 1..5}

\* tokens of the service: a category name, one with a space, one in mixed
\* case, a word of several names, a sentence holding a name, a word of no
\* name and the empty answer
ServiceTokens ==
    { Str(<<"safe", "senate">>, "_"), Str(<<"competitive", "house">>, " "),
      Str(<<"Safe", "Senate">>, "_"), Str(<<"senate">>, "_"),
      Str(<<"the", "state", "house", "race">>, " "), Str(<<"unknown">>, "_"),
      Str(<<>>, "_") }

ClassifyResponses ==
    [kind : {"no_client", "api_error", "not_json", "not_list"}, items : {<<>>}]
        \cup [kind : {"list"}, items : SeqsUpTo(ServiceTokens \cup {None}, MaxClassify)]

InitClassify ==
    /\ fn_pc = "call"
    /\ \/ /\ \E races \in SeqsUpTo(ClassifyRaces, MaxClassify) :
             \E response \in ClassifyResponses :
                 /\ races # <<>>
                 /\ fn_in = [impl |-> "server", races |-> races, response |-> response]
       \/ /\ \E race \in ClassifyRaces :
             \E response \in [kind : {"api_error"}, items : {<<>>}]
                             \cup [kind : {"list"}, items : {<<t>> : t \in ServiceTokens}] :
                 fn_in = [impl |-> "module", races |-> <<race>>, response |-> response]
    /\ fn_out = <<>>
    /\ MarketIdle /\ RankIdle /\ RaceIdle /\ FecIdle /\ BatchIdle /\ PoolIdle /\ RescoreIdle /\ CacheIdle

ClassifyRacesBatchWithLlm ==
    /\ fn_pc = "call" /\ fn_in.impl = "server"
    /\ fn_out' = classify_races_batch_with_llm(fn_in.races, fn_in.response)
    /\ fn_pc' = "done"
    /\ UNCHANGED fn_in
    /\ FnFrame

ClassifyRaceWithLlm ==
    /\ fn_pc = "call" /\ fn_in.impl = "module"
    /\ fn_out' = << classify_race_with_llm(
                       fn_in.races[1],
                       IF fn_in.response.kind = "list"
                       THEN [kind |-> "token", token |-> fn_in.response.items[1]]
                       ELSE [kind |-> "api_error", token |-> None]) >>
    /\ fn_pc' = "done"
    /\ UNCHANGED fn_in
    /\ FnFrame

NextClassify ==
    \/ ClassifyRacesBatchWithLlm
    \/ ClassifyRaceWithLlm

SpecClassify == InitClassify /\ [][NextClassify]_vars

\* the service failed, or its answer for the k-th race is missing, null or
\* a token that is no category name
NoCategoryAnswered(k) ==
    \/ fn_in.response.kind # "list"
    \/ k > Len(fn_in.response.items)
    \/ fn_in.response.items[k] = None
    \/ ~IsCategory(lower(fn_in.response.items[k]))

\* C13: when the service fails or its token for a race is not one of the
\* category names, the race's category is the one classify_race_rule_based
\* returns for it.
C13_FallbackIsRuleBased ==
    fn_pc = "done" =>
        \A k \in 1..Len(fn_in.races) :
            NoCategoryAnswered(k) => fn_out[k] = classify_race_rule_based(fn_in.races[k])

MaxElections == 4

WinnerParties == {"", "DEM", "REP", "IND"}

InitHistorical ==
    /\ fn_pc = "call"
    /\ fn_in \in SeqsUpTo(WinnerParties, MaxElections)
    /\ fn_out = <<>>
    /\ MarketIdle /\ RankIdle /\ RaceIdle /\ FecIdle /\ BatchIdle /\ PoolIdle /\ RescoreIdle /\ CacheIdle

CalculateCompetitivenessFromHistorical ==
    /\ fn_pc = "call"
    /\ fn_out' = calculate_competitiveness_from_historical(fn_in)
    /\ fn_pc' = "done"
    /\ UNCHANGED fn_in
    /\ FnFrame

NextHistorical == CalculateCompetitivenessFromHistorical

SpecHistorical == InitHistorical /\ [][NextHistorical]_vars

\* the winning parties of the call's elections, in order
WinningParties == SelectSeq(fn_in, LAMBDA p : p # "")

UniqueWinners == {WinningParties[i] : i \in 1..Len(WinningParties)}

PartyChanges ==
    Cardinality({i \in 1..(Len(WinningParties) - 1) : WinningParties[i] # WinningParties[i + 1]})

NamesOfState(name) ==
    { <<"U.S.", "Senate", "-">> \o name,
      <<"U.S.", "House", "of", "Representatives", "-">> \o name
          \o <<"9th", "Congressional", "District">>,
      <<"U.S.", "House", "of", "Representatives", "-">> \o name \o <<"At", "Large">>,
      name \o <<"State", "Senate", "-", "District", "7">>,
      name \o <<"Governor">> }

InitParse ==
    /\ fn_pc = "call"
    /\ \E entry \in 1..Len(STATE_NAME_TO_ABBREV) :
          \E race_name \in NamesOfState(STATE_NAME_TO_ABBREV[entry].name) :
             fn_in = [entry |-> entry, race_name |-> race_name]
    /\ fn_out = <<>>
    /\ MarketIdle /\ RankIdle /\ RaceIdle /\ FecIdle /\ BatchIdle /\ PoolIdle /\ RescoreIdle /\ CacheIdle

ParseRaceName ==
    /\ fn_pc = "call"
    /\ fn_out' = parse_race_name(fn_in.race_name)
    /\ fn_pc' = "done"
    /\ UNCHANGED fn_in
    /\ FnFrame

NextParse == ParseRaceName

SpecParse == InitParse /\ [][NextParse]_vars

\* C19: a race name that names an entry of the state table is given that
\* entry's code; the office is S or H only when the name carries "U.S.", and
\* the district is set only for House names; the North Carolina 9th district
\* name gives H, NC, 9 and "U.S. Senate - Ohio" gives S, OH, no district.
C19_EveryStateParsed ==
    fn_pc = "done" =>
        /\ fn_out.state = STATE_NAME_TO_ABBREV[fn_in.entry].abbrev
        /\ fn_out.office \in {"S", "H"} => HasTok(fn_in.race_name, "U.S.")
        /\ fn_out.district # 0 => fn_out.office = "H"
        /\ fn_in.race_name = <<"U.S.", "House", "of", "Representatives", "-", "North",
                               "Carolina", "9th", "Congressional", "District">>
              => fn_out = [office |-> "H", state |-> "NC", district |-> 9]
        /\ fn_in.race_name = <<"U.S.", "Senate", "-", "Ohio">>
              => fn_out = [office |-> "S", state |-> "OH", district |-> 0]

(***************************************************************************)
(* SpecGeneral: one call of calculate_competitiveness_general on an        *)
(* integer price, PriceMargin cents beyond the range of market prices on   *)
(* either side.  The result is in thousandths.                             *)
(***************************************************************************)

PriceMargin == 5

Prices == (1 - PriceMargin)..(99 + PriceMargin)

InitGeneral ==
    /\ fn_pc = "call"
    /\ fn_in \in Prices
    /\ fn_out = <<>>
    /\ MarketIdle /\ RankIdle /\ RaceIdle /\ FecIdle /\ BatchIdle /\ PoolIdle /\ RescoreIdle /\ CacheIdle

CalculateCompetitivenessGeneral ==
    /\ fn_pc = "call"
    /\ fn_out' = calculate_competitiveness_general(fn_in)
    /\ fn_pc' = "done"
    /\ UNCHANGED fn_in
    /\ FnFrame

NextGeneral == CalculateCompetitivenessGeneral

SpecGeneral == InitGeneral /\ [][NextGeneral]_vars

\* C20 as stated: for a price in 1..99 the competitiveness lies in [0,1], is
\* 1.0 exactly at 50, strictly decreases away from 50 and is zero at the
\* extreme prices; a price outside 1..99 is clamped first.
C20_ZeroAtTheExtremes ==
    fn_pc = "done" =>
        /\ fn_out >= 0 /\ fn_out <= 1000
        /\ fn_in \in 1..99 => (fn_out = 1000 <=> fn_in = 50)
        /\ fn_in \in 2..50 => calculate_competitiveness_general(fn_in - 1) < fn_out
        /\ fn_in \in 50..98 => calculate_competitiveness_general(fn_in + 1) < fn_out
        /\ fn_in \in {1, 99} => fn_out = 0
        /\ fn_in < 1 => fn_out = calculate_competitiveness_general(1)
        /\ fn_in > 99 => fn_out = calculate_competitiveness_general(99)

\* C20, amended: at the extreme prices 1 and 99 the competitiveness is 0.02,
\* its minimum; zero is never reached.
C20_MinimumAtTheExtremes ==
    fn_pc = "done" =>
        /\ fn_out >= 0 /\ fn_out <= 1000
        /\ fn_in \in 1..99 => (fn_out = 1000 <=> fn_in = 50)
        /\ fn_in \in 2..50 => calculate_competitiveness_general(fn_in - 1) < fn_out
        /\ fn_in \in 50..98 => calculate_competitiveness_general(fn_in + 1) < fn_out
        /\ fn_in \in {1, 99} => fn_out = 20
        /\ fn_out >= 20
        /\ fn_in < 1 => fn_out = calculate_competitiveness_general(1)
        /\ fn_in > 99 => fn_out = calculate_competitiveness_general(99)

\* the extreme price 99, scored 0.02
C20_Witness ==
    /\ fn_pc = "done" /\ fn_in = 99 /\ fn_out = 20

(***************************************************************************)
(* SpecSaturation: one call of calculate_saturation_fec for a total of     *)
(* receipts in dollars that get_fec_candidates_total_receipts returned.    *)
(***************************************************************************)

\* totals from nothing to two billion dollars, on both sides of the totals
\* where the clamp of line 1238 begins to act
ReceiptsLadder ==
    {0, 1, 2, 10, 100, 1000, 10000, 100000, 1000000, 10000000, 100000000,
     500000000, 1000000000, 2000000000}

SaturationCycles == {2016, 2022, 2026, 2028}

InitSaturation ==
    /\ fn_pc = "call"
    /\ fn_in \in [race : FecRaces, cycle : SaturationCycles, total_receipts : ReceiptsLadder]
    /\ fn_out = <<>>
    /\ MarketIdle /\ RankIdle /\ RaceIdle /\ FecIdle /\ BatchIdle /\ PoolIdle /\ RescoreIdle /\ CacheIdle

CalculateSaturationFec ==
    /\ fn_pc = "call"
    /\ fn_out' = calculate_saturation_fec(fn_in.race.name, fn_in.cycle,
                                          [raised |-> FALSE, total |-> fn_in.total_receipts])
    /\ fn_pc' = "done"
    /\ UNCHANGED fn_in
    /\ FnFrame

NextSaturation == CalculateSaturationFec

SpecSaturation == InitSaturation /\ [][NextSaturation]_vars

\* the score of the same race and cycle for another total of receipts
SaturationFor(total_receipts) ==
    calculate_saturation_fec(fn_in.race.name, fn_in.cycle,
                             [raised |-> FALSE, total |-> total_receipts]).score

\* C21: for a parseable race the saturation score of calculate_saturation_fec
\* lies in [0.05, 1.0], is exactly 1.0 for receipts of zero, and is never
\* larger for larger receipts.
C21_SaturationBoundedAndNonIncreasing ==
    (/\ fn_pc = "done"
     /\ parse_race_name(fn_in.race.name).office # ""
     /\ parse_race_name(fn_in.race.name).state # "") =>
        /\ fn_out.score >= 50 /\ fn_out.score <= 1000
        /\ fn_in.total_receipts = 0 => fn_out.score = 1000
        /\ \A more \in ReceiptsLadder :
              more >= fn_in.total_receipts => SaturationFor(more) <= fn_out.score

\* a total of a billion dollars, held at 0.05 by the clamp
C21_Witness ==
    /\ fn_pc = "done" /\ fn_in.total_receipts = 1000000000 /\ fn_out.score = 50

(***************************************************************************)
(* SpecMultiplier: calculate_race_total_volume and                         *)
(* calculate_dollar_power_multiplier for one race, as                      *)
(* get_monetary_estimate_value calls them.  Amounts are in dollars, the    *)
(* multiplier in thousandths.                                              *)
(***************************************************************************)

MaxCandidates == 3

Donations == {-100, 0, 1, 25, 100, 1000, 2000}

MidEstimates == {-500, 0, 500, 5000, 250000}

\* round(1000 * (1.0 + math.log10(1.0 + proportion * 1000) * 2.0)) for the
\* proportions, in millionths, that Donations and MidEstimates lead to
LogMultiplier(millionths) ==
    CASE millionths = 0 -> 1001 [] millionths = 1 -> 1001 [] millionths = 2 -> 1002
      [] millionths = 4 -> 1003 [] millionths = 20 -> 1017 [] millionths = 25 -> 1021
      [] millionths = 33 -> 1028 [] millionths = 40 -> 1034 [] millionths = 50 -> 1042
      [] millionths = 66 -> 1056 [] millionths = 80 -> 1067 [] millionths = 100 -> 1083
      [] millionths = 133 -> 1109 [] millionths = 200 -> 1158 [] millionths = 400 -> 1292
      [] millionths = 500 -> 1352 [] millionths = 666 -> 1444 [] millionths = 800 -> 1511
      [] millionths = 1000 -> 1602 [] millionths = 1250 -> 1704 [] millionths = 1333 -> 1736
      [] millionths = 1600 -> 1830 [] millionths = 1666 -> 1852 [] millionths = 2000 -> 1954
      [] millionths = 2500 -> 2088 [] millionths = 2666 -> 2129 [] millionths = 4000 -> 2398
      [] millionths = 5000 -> 2556 [] millionths = 6666 -> 2769 [] millionths = 8000 -> 2908
      [] millionths = 10000 -> 3083 [] millionths = 12500 -> 3261 [] millionths = 16666 -> 3494
      [] millionths = 20000 -> 3644 [] millionths = 25000 -> 3830 [] millionths = 40000 -> 4226
      [] millionths = 50000 -> 4415 [] millionths = 66666 -> 4661 [] millionths = 80000 -> 4817
      [] millionths = 100000 -> 5009 [] millionths = 133333 -> 5256 [] millionths = 200000 -> 5606
      [] millionths = 400000 -> 6206 [] millionths = 500000 -> 6400 [] millionths = 666666 -> 6649
      [] millionths = 800000 -> 6807 [] millionths = 1000000 -> 7001

\* calculate_race_total_volume
calculate_race_total_volume(candidate_count, mid_estimate) ==
    IF candidate_count = 0 THEN 0 ELSE mid_estimate * candidate_count

\* calculate_dollar_power_multiplier without the bounds of line 556
calculate_dollar_power_multiplier_unclamped(donation_amount, total_race_volume) ==
    IF total_race_volume <= 0 \/ donation_amount <= 0 THEN 1000
    ELSE LogMultiplier(Min((donation_amount * 1000000) \div total_race_volume, 1000000))

\* calculate_dollar_power_multiplier: the proportion is capped at 1.0 and the
\* multiplier held within [0.5, 5.0]
calculate_dollar_power_multiplier(donation_amount, total_race_volume) ==
    IF total_race_volume <= 0 THEN 1000
    ELSE IF donation_amount <= 0 THEN 1000
    ELSE LET proportion == Min((donation_amount * 1000000) \div total_race_volume, 1000000)
         IN  Clamp(LogMultiplier(proportion), 500, 5000)

InitMultiplier ==
    /\ fn_pc = "call"
    /\ fn_in \in [donation_amount : Donations, mid_estimate : MidEstimates,
                  candidate_count : 0..MaxCandidates]
    /\ fn_out = <<>>
    /\ MarketIdle /\ RankIdle /\ RaceIdle /\ FecIdle /\ BatchIdle /\ PoolIdle /\ RescoreIdle /\ CacheIdle

CalculateDollarPowerMultiplier ==
    /\ fn_pc = "call"
    /\ LET total_volume == calculate_race_total_volume(fn_in.candidate_count, fn_in.mid_estimate)
       IN  fn_out' = [total_volume |-> total_volume,
                      multiplier |-> calculate_dollar_power_multiplier(fn_in.donation_amount,
                                                                       total_volume)]
    /\ fn_pc' = "done"
    /\ UNCHANGED fn_in
    /\ FnFrame

NextMultiplier == CalculateDollarPowerMultiplier

SpecMultiplier == InitMultiplier /\ [][NextMultiplier]_vars

\* the positive volumes the inputs lead to
PositiveVolumes ==
    {mid_estimate * candidate_count :
        mid_estimate \in {m \in MidEstimates : m > 0}, candidate_count \in 1..MaxCandidates}

\* C22: the multiplier is exactly 1.0 when the donation or the volume is not
\* positive; otherwise it lies in [0.5, 5.0] and is never smaller for a
\* larger donation/volume, the donation equal to and far above the volume
\* included; a race without candidates has volume 0 and multiplier 1.0.
C22_MultiplierBoundedAndNonDecreasing ==
    fn_pc = "done" =>
        /\ (fn_in.donation_amount <= 0 \/ fn_out.total_volume <= 0) => fn_out.multiplier = 1000
        /\ fn_out.multiplier >= 500 /\ fn_out.multiplier <= 5000
        /\ fn_in.candidate_count = 0 => (fn_out.total_volume = 0 /\ fn_out.multiplier = 1000)
        /\ (fn_in.donation_amount > 0 /\ fn_out.total_volume > 0) =>
              \A donation \in {d \in Donations : d > 0}, volume \in PositiveVolumes :
                 donation * fn_out.total_volume >= fn_in.donation_amount * volume
                    => calculate_dollar_power_multiplier(donation, volume) >= fn_out.multiplier

\* a donation of the size of the race's whole volume, held at 5.0
C22_Witness ==
    /\ fn_pc = "done" /\ fn_in.donation_amount > 0
    /\ fn_in.donation_amount = fn_out.total_volume /\ fn_out.multiplier = 5000

(***************************************************************************)
(* SpecCache: concurrent calls of save_volume_estimate_to_cache, one       *)
(* system call per step.  A writer is a worker thread of                   *)
(* get_monetary_estimate_value or another server process; it saves the     *)
(* estimates of its races one after the other.  flock locks the inode the  *)
(* writer's lock_file is open on, not the path.                            *)
(***************************************************************************)

CacheFrame ==
    UNCHANGED <<marketVars, rankVars, raceVars, fecVars, batchVars, poolVars, rescoreVars, fnVars>>

MaxWriters == 2

MaxSaves == 2

\* max_retries of save_volume_estimate_to_cache, line 381
lock_max_retries == 10

Writers == 1..MaxWriters

\* the cache keys of the races a writer saves: no two writers share a race
KeysOf(w, n) == [i \in 1..n |-> <<w, i>>]

InitCache ==
    /\ \E n \in [Writers -> 1..MaxSaves] : c_todo = [w \in Writers |-> KeysOf(w, n[w])]
    /\ c_pc = [w \in Writers |-> "open"]
    /\ c_attempt = [w \in Writers |-> 0]
    /\ c_fd = [w \in Writers |-> 0]
    /\ c_flock = [w \in Writers |-> FALSE]
    /\ c_loaded = [w \in Writers |-> {}]
    /\ c_lock_path \in {0, 1}
    /\ c_file \in {{}, {<<0, 1>>}}
    /\ c_tmp = NoTemp
    /\ c_saved = {}
    /\ MarketIdle /\ RankIdle /\ RaceIdle /\ FecIdle /\ BatchIdle /\ PoolIdle /\ RescoreIdle
    /\ FnIdle

\* an inode number no open file and no path refers to
FreshInode ==
    CHOOSE i \in 1..(MaxWriters + 1) :
        i # c_lock_path /\ \A w \in Writers : c_fd[w] # i

\* the save is over: the next race of the writer, or the end of its work
NextSave(w) ==
    /\ c_todo' = [c_todo EXCEPT ![w] = Tail(@)]
    /\ c_pc' = [c_pc EXCEPT ![w] = IF Len(c_todo[w]) > 1 THEN "open" ELSE "done"]
    /\ c_attempt' = [c_attempt EXCEPT ![w] = 0]

\* line 387: lock_file = open(lock_file_path, 'w') opens the file the path
\* names and creates one when the path names none
OpenLockFile(w) ==
    /\ c_pc[w] = "open"
    /\ LET inode == IF c_lock_path = 0 THEN FreshInode ELSE c_lock_path
       IN  /\ c_fd' = [c_fd EXCEPT ![w] = inode]
           /\ c_lock_path' = inode
    /\ c_pc' = [c_pc EXCEPT ![w] = "flock"]
    /\ UNCHANGED <<c_todo, c_attempt, c_flock, c_loaded, c_file, c_tmp, c_saved>>
    /\ CacheFrame

\* line 389: flock(LOCK_EX | LOCK_NB) on the open file.  When another open
\* file holds the lock of the same inode it raises: the file is closed (lines
\* 442-445) and the attempt is repeated after a sleep, or after the last
\* attempt the function returns (lines 447-454)
Flock(w) ==
    /\ c_pc[w] = "flock"
    /\ IF \E v \in Writers : v # w /\ c_flock[v] /\ c_fd[v] = c_fd[w]
       THEN /\ c_fd' = [c_fd EXCEPT ![w] = 0]
            /\ IF c_attempt[w] < lock_max_retries - 1
               THEN /\ c_attempt' = [c_attempt EXCEPT ![w] = @ + 1]
                    /\ c_pc' = [c_pc EXCEPT ![w] = "open"]
                    /\ UNCHANGED c_todo
               ELSE NextSave(w)
            /\ UNCHANGED c_flock
       ELSE /\ c_flock' = [c_flock EXCEPT ![w] = TRUE]
            /\ c_pc' = [c_pc EXCEPT ![w] = "load"]
            /\ UNCHANGED <<c_fd, c_attempt, c_todo>>
    /\ UNCHANGED <<c_loaded, c_lock_path, c_file, c_tmp, c_saved>>
    /\ CacheFrame

\* lines 392-402: the estimates of the cache file are read
LoadCache(w) ==
    /\ c_pc[w] = "load"
    /\ c_loaded' = [c_loaded EXCEPT ![w] = c_file]
    /\ c_pc' = [c_pc EXCEPT ![w] = "dump"]
    /\ UNCHANGED <<c_todo, c_attempt, c_fd, c_flock, c_lock_path, c_file, c_tmp, c_saved>>
    /\ CacheFrame

\* lines 405-417: the writer's key is added and the whole written to the
\* temp file, whose path all writers share
DumpTemp(w) ==
    /\ c_pc[w] = "dump"
    /\ c_tmp' = [exists |-> TRUE, estimates |-> c_loaded[w] \cup {Head(c_todo[w])}]
    /\ c_pc' = [c_pc EXCEPT ![w] = "replace"]
    /\ UNCHANGED <<c_todo, c_attempt, c_fd, c_flock, c_loaded, c_lock_path, c_file, c_saved>>
    /\ CacheFrame

\* lines 420-424: os.replace(temp_file, VOLUME_CACHE_FILE) when the temp file
\* exists, and the break
ReplaceCache(w) ==
    /\ c_pc[w] = "replace"
    /\ IF c_tmp.exists
       THEN c_file' = c_tmp.estimates /\ c_tmp' = NoTemp
       ELSE UNCHANGED <<c_file, c_tmp>>
    /\ c_saved' = c_saved \cup {Head(c_todo[w])}
    /\ c_pc' = [c_pc EXCEPT ![w] = "unlock"]
    /\ UNCHANGED <<c_todo, c_attempt, c_fd, c_flock, c_loaded, c_lock_path>>
    /\ CacheFrame

\* lines 442-445: the finally clause releases the lock and closes the file
Unlock(w) ==
    /\ c_pc[w] = "unlock"
    /\ c_flock' = [c_flock EXCEPT ![w] = FALSE]
    /\ c_fd' = [c_fd EXCEPT ![w] = 0]
    /\ c_pc' = [c_pc EXCEPT ![w] = "cleanup"]
    /\ UNCHANGED <<c_todo, c_attempt, c_loaded, c_lock_path, c_file, c_tmp, c_saved>>
    /\ CacheFrame

\* the clean-up without the removal of the lock file
KeepLockFile(lock_path) == lock_path

\* lines 459-464: the lock file, which is always empty, is removed when the
\* path names one
RemoveLockFile(lock_path) == 0

CleanUpLockFile(w) ==
    /\ c_pc[w] = "cleanup"
    /\ c_lock_path' = RemoveLockFile(c_lock_path)
    /\ NextSave(w)
    /\ UNCHANGED <<c_fd, c_flock, c_loaded, c_file, c_tmp, c_saved>>
    /\ CacheFrame

NextCache ==
    \E w \in Writers :
        \/ OpenLockFile(w)
        \/ Flock(w)
        \/ LoadCache(w)
        \/ DumpTemp(w)
        \/ ReplaceCache(w)
        \/ Unlock(w)
        \/ CleanUpLockFile(w)

SpecCache == InitCache /\ [][NextCache]_vars

\* the writers that have read the cache file and not yet replaced it
BetweenReadAndReplace == {w \in Writers : c_pc[w] \in {"dump", "replace"}}

\* C23: at most one writer at a time is between reading the cache file and
\* replacing it, in every interleaving of the savers, the clean-up of the
\* lock file included; when every writer is done, every key whose save
\* succeeded is in the cache file.
C23_WritersMutuallyExclusive ==
    /\ Cardinality(BetweenReadAndReplace) <= 1
    /\ (\A w \in Writers : c_pc[w] = "done") => c_saved \subseteq c_file

(***************************************************************************)
(* SpecMethod: one call of _estimate_volumes_for_batch or of               *)
(* estimate_race_monetary_volume on races the cache does not hold, with a  *)
(* response of the classification service, and a second call that reads    *)
(* the estimates back from the cache the first call left.                  *)
(***************************************************************************)

MaxMethodRaces == 2

MethodRaces ==
    { <<PoolRaces[i]>> : i \in 1..Len(PoolRaces) }
        \cup { s \in SeqsUpTo({PoolRaces[i] : i \in 1..Len(PoolRaces)}, MaxMethodRaces) :
                  Len(s) >= 2 /\ \A j, k \in 1..Len(s) : j # k => s[j] # s[k] }

\* the service answers every race, fails, is not configured, or answers a
\* word that is no category name for every race
MethodResponses(races) ==
    ServiceResponses(races)
        \cup { [kind |-> "no_client", items |-> <<>>],
               [kind |-> "list",
                items |-> [k \in 1..Len(races) |-> Str(<<"unknown">>, "_")]] }

EmptyCache == [kind |-> "ok", estimates |-> <<>>]

InitMethod ==
    /\ fn_pc = "call"
    /\ \E races \in MethodRaces :
       \E response \in MethodResponses(races) :
       \E impl \in (IF Len(races) = 1 THEN {"batch", "single"} ELSE {"batch"}) :
          fn_in = [impl |-> impl, races |-> races, response |-> response]
    /\ fn_out = [results |-> <<>>, cache |-> EmptyCache]
    /\ MarketIdle /\ RankIdle /\ RaceIdle /\ FecIdle /\ BatchIdle /\ PoolIdle /\ RescoreIdle /\ CacheIdle

\* the results of one call on the races of fn_in with the given cache
EstimatesWith(cache) ==
    IF fn_in.impl = "batch"
    THEN estimate_volumes_for_batch(fn_in.races,
                                    [k \in 1..Len(fn_in.races) |-> k],
                                    cache, fn_in.response)
    ELSE LET sync == estimate_race_monetary_volume(fn_in.races[1], cache, fn_in.response)
         IN  [results |-> <<[race_index |-> 1, volume_estimate |-> sync.estimate]>>,
              cache |-> sync.cache]

EstimateVolumesForBatch ==
    /\ fn_pc = "call" /\ fn_in.impl = "batch"
    /\ fn_out' = EstimatesWith(EmptyCache)
    /\ fn_pc' = "done"
    /\ UNCHANGED fn_in
    /\ FnFrame

EstimateRaceMonetaryVolume ==
    /\ fn_pc = "call" /\ fn_in.impl = "single"
    /\ fn_out' = EstimatesWith(EmptyCache)
    /\ fn_pc' = "done"
    /\ UNCHANGED fn_in
    /\ FnFrame

\* the same call once more: every estimate is read back from the cache
ReadBackFromCache ==
    /\ fn_pc = "done"
    /\ fn_out' = EstimatesWith(fn_out.cache)
    /\ fn_pc' = "read_back"
    /\ UNCHANGED fn_in
    /\ FnFrame

NextMethod ==
    \/ EstimateVolumesForBatch
    \/ EstimateRaceMonetaryVolume
    \/ ReadBackFromCache

SpecMethod == InitMethod /\ [][NextMethod]_vars

\* the category of the k-th race is the service's: its answer for the race
\* is a category name, or was matched to one
FromService(k) ==
    /\ fn_in.response.kind = "list"
    /\ k <= Len(fn_in.response.items)
    /\ fn_in.response.items[k] # None
    /\ LET classification == lower(fn_in.response.items[k])
       IN  \/ IsCategory(classification)
           \/ IsCategory(replace(classification, " ", "_"))
           \/ PartialMatch(classification) # 0

\* C27: the method of a volume estimate is 'llm' only when its category
\* came from the classification service, and a rule-based label when
\* classify_race_rule_based produced it; also for the estimates of
\* _estimate_volumes_for_batch and for estimates read back from the cache.
C27_MethodNamesClassifier ==
    fn_pc \in {"done", "read_back"} =>
        \A k \in 1..Len(fn_out.results) :
            LET estimate == fn_out.results[k].volume_estimate
            IN  /\ estimate.method = "llm" => FromService(k)
                /\ ~FromService(k) =>
                      estimate.method \in {"rule_based", "rule_based_fallback"}

(***************************************************************************)
(* SpecExpiry: saves and lookups of volume estimates in the cache file as  *)
(* the hours pass, by one process.  fn_in is the clock and the cache file; *)
(* an estimate in the file carries the hour at which it was saved, which   *)
(* the file itself does not record.  fn_out is the answer of the last      *)
(* lookup.                                                                 *)
(***************************************************************************)

CACHE_DURATION_HOURS == 24

\* the last hour of the clock, and the hours between two calls
MaxClock == 48

ClockStep == 12

ExpiryRaces == {1, 2}

NoLookup == [race |-> 0, cached |-> FALSE, saved_at |-> 0]

\* no cache file
NoCacheFile == [exists |-> FALSE, timestamp |-> 0, estimates |-> <<>>]

InitExpiry ==
    /\ fn_pc = "idle"
    /\ fn_in = [now |-> 0, file |-> NoCacheFile]
    /\ fn_out = NoLookup
    /\ MarketIdle /\ RankIdle /\ RaceIdle /\ FecIdle /\ BatchIdle /\ PoolIdle /\ RescoreIdle /\ CacheIdle

\* lines 391-424: the estimates of the file are kept, the race's estimate is
\* set and the file's one timestamp becomes the time of this save
save_volume_estimate_to_cache(file, race, now) ==
    [exists |-> TRUE,
     timestamp |-> now,
     estimates |-> [r \in (DOMAIN file.estimates) \cup {race} |->
                      IF r = race THEN [saved_at |-> now] ELSE file.estimates[r]]]

\* lines 324-360: the race's estimate when the file's timestamp is less than
\* CACHE_DURATION_HOURS old
get_cached_volume_estimate(file, race, now) ==
    IF ~file.exists THEN NoLookup
    ELSE LET age == now - file.timestamp
         IN  IF age < CACHE_DURATION_HOURS /\ race \in DOMAIN file.estimates
             THEN [race |-> race, cached |-> TRUE,
                   saved_at |-> file.estimates[race].saved_at]
             ELSE [race |-> race, cached |-> FALSE, saved_at |-> 0]

HoursPass ==
    /\ fn_in.now + ClockStep <= MaxClock
    /\ fn_in' = [fn_in EXCEPT !.now = @ + ClockStep]
    /\ fn_pc' = "idle"
    /\ UNCHANGED fn_out
    /\ FnFrame

SaveVolumeEstimateToCache(race) ==
    /\ fn_in' = [fn_in EXCEPT !.file = save_volume_estimate_to_cache(@, race, fn_in.now)]
    /\ fn_pc' = "saved"
    /\ UNCHANGED fn_out
    /\ FnFrame

GetCachedVolumeEstimate(race) ==
    /\ fn_out' = get_cached_volume_estimate(fn_in.file, race, fn_in.now)
    /\ fn_pc' = "looked_up"
    /\ UNCHANGED fn_in
    /\ FnFrame

NextExpiry ==
    \/ HoursPass
    \/ \E race \in ExpiryRaces : SaveVolumeEstimateToCache(race)
    \/ \E race \in ExpiryRaces : GetCachedVolumeEstimate(race)

SpecExpiry == InitExpiry /\ [][NextExpiry]_vars

\* C28: after any saves and lookups, a lookup returns a race's cached
\* estimate only if that estimate was saved less than CACHE_DURATION_HOURS
\* earlier, also when other races were saved in the meantime.
C28_ServedOnlyWhenFresh ==
    (fn_pc = "looked_up" /\ fn_out.cached) =>
        fn_in.now - fn_out.saved_at < CACHE_DURATION_HOURS

(***************************************************************************)
(* SpecProxy: validate_kalshi_market_match of both versions on every       *)
(* series of a search, and calculate_race_leverage_score on the race, for  *)
(* races of every level whose names name no U.S. House or U.S. Senate      *)
(* seat, and for one that does.                                            *)
(***************************************************************************)

MaxProxyResults == 2

ProxyRaces ==
    { [name |-> <<"Ohio", "State", "Senate", "-", "District", "7">>, level |-> "STATE"],
      [name |-> <<"Ohio", "Governor">>, level |-> "STATE"],
      [name |-> <<"Columbus", "Mayor">>, level |-> "CITY"],
      [name |-> <<"President", "of", "the", "United", "States">>, level |-> "FEDERAL"],
      [name |-> <<"U.S.", "Senate", "-", "Ohio">>, level |-> "FEDERAL"] }

InitProxy ==
    /\ fn_pc = "call"
    /\ \E impl \in Impls, race \in ProxyRaces, election_year \in ElectionYears :
       \E all_series \in SeqsUpTo(MarketCatalogue, MaxProxyResults) :
       \E days_until \in (IF election_year = 0 THEN {Null} ELSE {30, 400}) :
       \E receipts \in (IF race.level = "FEDERAL" THEN ReceiptsOutcomes ELSE {NoReceipts}) :
          fn_in = [impl |-> impl, race |-> race, election_year |-> election_year,
                   all_series |-> all_series, receipts |-> receipts,
                   days_until |-> days_until]
    /\ fn_out = [validations |-> <<>>, scores |-> InitialScores]
    /\ MarketIdle /\ RankIdle /\ RaceIdle /\ FecIdle /\ BatchIdle /\ PoolIdle /\ RescoreIdle /\ CacheIdle

\* find_scores.py: the validation of every series of the search
ValidateKalshiMarketMatch ==
    /\ fn_pc = "call" /\ fn_in.impl = "find_scores"
    /\ fn_out' = [fn_out EXCEPT !.validations =
                     [i \in 1..Len(fn_in.all_series) |->
                         validate_kalshi_market_match(fn_in.all_series[i],
                                                      fn_in.race.name, fn_in.election_year)]]
    /\ fn_pc' = "done"
    /\ UNCHANGED fn_in
    /\ FnFrame

\* the server: the validation of every series, and the score of the race
CalculateRaceLeverageScoreOfRace ==
    /\ fn_pc = "call" /\ fn_in.impl = "server"
    /\ fn_out' =
          [validations |->
              [i \in 1..Len(fn_in.all_series) |->
                  validate_kalshi_market_match_server(fn_in.all_series[i],
                                                      fn_in.race.name, fn_in.election_year)],
           scores |->
              calculate_race_leverage_score(
                  fn_in.race, fn_in.election_year,
                  get_kalshi_market_server(fn_in.race.name, fn_in.election_year,
                                           TRUE, fn_in.all_series),
                  FecOf(fn_in), fn_in.days_until)]
    /\ fn_pc' = "done"
    /\ UNCHANGED fn_in
    /\ FnFrame

NextProxy ==
    \/ ValidateKalshiMarketMatch
    \/ CalculateRaceLeverageScoreOfRace

SpecProxy == InitProxy /\ [][NextProxy]_vars

\* the race's name names no U.S. House or U.S. Senate seat
NoFederalOffice == parse_race_name(fn_in.race.name).office = ""

NeverValidNoProxy ==
    /\ \A i \in 1..Len(fn_out.validations) : ~fn_out.validations[i].is_valid
    /\ fn_in.impl = "server" => fn_out.scores.sat_method # "kalshi_proxy"

\* C29 as stated: for a race whose name does not parse to U.S. House or U.S.
\* Senate every market is invalid in every year, the liquidity proxy is
\* never applied and the saturation stays at its initial value.
C29_UnparsedRaceKeepsInitialSaturation ==
    (fn_pc = "done" /\ NoFederalOffice) =>
        /\ NeverValidNoProxy
        /\ fn_in.impl = "server" => fn_out.scores.sat_score = 1000

\* C29 amended: every market is invalid in every year and the liquidity
\* proxy is never applied; the saturation stays at its initial value for a
\* race that is not FEDERAL, and is the parse-failure default of
\* calculate_saturation_fec, 1 / ln(1 + 10,000,000), for a FEDERAL race.
C29_UnparsedRaceNeverUsesProxy ==
    (fn_pc = "done" /\ NoFederalOffice) =>
        /\ NeverValidNoProxy
        /\ fn_in.impl = "server" =>
              fn_out.scores.sat_score =
                  IF fn_in.race.level = "FEDERAL" THEN InverseLog1p(10000000) ELSE 1000

\* the state senate race of Ohio with the market of Ohio's U.S. Senate
\* race of the same year as the only result
C29_Witness ==
    /\ fn_pc = "done" /\ fn_in.impl = "server"
    /\ fn_in.race.name = <<"Ohio", "State", "Senate", "-", "District", "7">>
    /\ fn_in.election_year = 2026
    /\ Len(fn_in.all_series) = 1
    /\ fn_in.all_series[1].title = <<"ohio", "senate", "2026">>
    /\ fn_in.all_series[1].markets # <<>>
    /\ fn_out.validations[1].state_match
    /\ fn_out.scores.source = <<"Kalshi">>
    /\ fn_out.scores.sat_score = 1000

(***************************************************************************)
(* SpecStage: step 2 of get_monetary_estimate_value on races whose volume  *)
(* estimates step 1 has settled.  A race is its relevance_score in         *)
(* thousandths (Absent: no key; Null: None), the number of its candidates  *)
(* and the mid_estimate of its volume estimate (Null: no estimate could be *)
(* made).  fn_out is the loop index and the races as the loop leaves them. *)
(***************************************************************************)

MaxStageRaces == 2

StageDonations == {0, 25, 2000}

StageScores == {Absent, Null, -400, 0, 400}

StageRaces ==
    [relevance_score : StageScores, candidate_count : {0, MaxCandidates},
     mid_estimate : {Null, 500, 250000},
     dollar_power_multiplier : {Absent}, total_race_volume : {Absent}]

InitStage ==
    /\ fn_pc = "loop"
    /\ fn_in \in [donation_amount : StageDonations,
                  races : SeqsUpTo(StageRaces, MaxStageRaces)]
    /\ fn_out = [i |-> 1, races |-> fn_in.races]
    /\ MarketIdle /\ RankIdle /\ RaceIdle /\ FecIdle /\ BatchIdle /\ PoolIdle /\ RescoreIdle /\ CacheIdle

\* new_score = current_score / multiplier
MonetaryScoreDivided(current_score, multiplier) == (current_score * 1000) \div multiplier

\* line 772: new_score = current_score * multiplier
MonetaryScore(current_score, multiplier) == (current_score * multiplier) \div 1000

\* lines 728-793 for one race: a race without an estimate is skipped, and a
\* score of None raises at line 772, which leaves the score as it was
StageRace(race, donation_amount) ==
    IF race.mid_estimate = Null THEN race
    ELSE LET total_race_volume ==
                 calculate_race_total_volume(race.candidate_count, race.mid_estimate)
             multiplier == calculate_dollar_power_multiplier(donation_amount, total_race_volume)
             current_score == GetDefault(race.relevance_score, 0)
         IN  IF current_score = Null
             THEN [race EXCEPT !.total_race_volume = total_race_volume,
                               !.dollar_power_multiplier = multiplier]
             ELSE [race EXCEPT !.total_race_volume = total_race_volume,
                               !.dollar_power_multiplier = multiplier,
                               !.relevance_score = MonetaryScore(current_score, multiplier)]

ScoreRaceMonetary ==
    /\ fn_pc = "loop" /\ fn_out.i <= Len(fn_out.races)
    /\ fn_out' = [i |-> fn_out.i + 1,
                  races |-> [fn_out.races EXCEPT ![fn_out.i] =
                                StageRace(@, fn_in.donation_amount)]]
    /\ UNCHANGED <<fn_pc, fn_in>>
    /\ FnFrame

ReturnStageRaces ==
    /\ fn_pc = "loop" /\ fn_out.i > Len(fn_out.races)
    /\ fn_pc' = "done"
    /\ UNCHANGED <<fn_in, fn_out>>
    /\ FnFrame

NextStage ==
    \/ ScoreRaceMonetary
    \/ ReturnStageRaces

SpecStage == InitStage /\ [][NextStage]_vars

\* the score of a race before the stage: a race without the key counts 0.0
ScoreBefore(i) == GetDefault(fn_in.races[i].relevance_score, 0)

\* C30: for a donation > 0 and a total race volume > 0 the multiplier is at
\* least 1.0, and the stage never lowers a non-negative relevance_score:
\* each race's score after the stage is at least its score before and at
\* most five times it.
C30_StageNeverLowersScore ==
    /\ \A i \in 1..Len(fn_out.races) :
          (/\ fn_out.races[i].dollar_power_multiplier # Absent
           /\ fn_in.donation_amount > 0 /\ fn_out.races[i].total_race_volume > 0) =>
              fn_out.races[i].dollar_power_multiplier >= 1000
    /\ fn_pc = "done" =>
          \A i \in 1..Len(fn_out.races) :
              (ScoreBefore(i) # Null /\ ScoreBefore(i) >= 0) =>
                  /\ GetDefault(fn_out.races[i].relevance_score, 0) >= ScoreBefore(i)
                  /\ GetDefault(fn_out.races[i].relevance_score, 0) <= 5 * ScoreBefore(i)

\* a race with score 0.4 and a donation above its whole volume
C30_Witness ==
    /\ fn_pc = "done" /\ Len(fn_out.races) >= 1
    /\ fn_in.donation_amount = 2000
    /\ fn_in.races[1].relevance_score = 400
    /\ fn_out.races[1].total_race_volume = 1500
    /\ fn_out.races[1].dollar_power_multiplier = 5000
    /\ fn_out.races[1].relevance_score = 2000

====
